---- MODULE Spec2Model ----
(***************************************************************************)
(* A model of the DevStack management CLI (scripts/manage_devstack.py):    *)
(* the profile-driven lifecycle commands (start, stop, restart, health,    *)
(* reset), the backup / restore coordinator and the cache-cluster          *)
(* bootstrap.  The external world (the Colima VM, the containers, their    *)
(* volumes, the files on the host) is state; every handler is a sequence   *)
(* of steps, one per external call, and pc is the handler's position.      *)
(***************************************************************************)
EXTENDS Integers, Sequences, FiniteSets, TLC

\* ------------------------------------------------------------------ bounds
MaxRuns == 2        \* CLI invocations in one behaviour
MaxClock == 2       \* last second the wall clock can show
MaxProfiles == 2    \* --profile options given to one invocation
MaxServices == 2    \* services in one profile's list (the catalogs of SpecResolve)
MaxPathLen == 3     \* characters in a secret path given to the VaultClient

\* ------------------------------------------------------------------ state
VARIABLES
    \* the external world, which outlives an invocation
    vm,               \* the Colima VM: "Running", "Stopped" or "Deleted"
    containers,       \* the services whose dev-<service> container is running
    volumes,          \* stateful service -> the data its volume holds
    env_file,         \* content of ENV_FILE, "absent" when there is none
    backups,          \* backup directory name -> its files, NoDir when absent
    root_token,       \* content of VAULT_CONFIG_DIR/root-token
    clock,            \* the last second datetime.now() has shown
    profiles_config,  \* the parsed profiles.yaml
    docker,           \* how the docker executable resolves
    colima,           \* how the colima executable resolves
    profile_envs,     \* PROFILES_DIR: profile name -> the variables of <name>.env
    cluster,          \* the Redis cluster: "none" or "created"
    other_dirs,       \* directories of backups/ whose name is not a timestamp
    \* one call of the reference application's VaultClient
    vault_pc,         \* position in the call
    vault_call,       \* the method called and its arguments
    vault_requests,   \* the requests the call has sent
    vault_response,   \* what the store answered to the request
    vault_result,     \* what the call returned or raised
    \* one invocation of the CLI
    runs,             \* invocations started so far
    command,          \* the command being run
    profile,          \* the --profile options, in the order given
    backup_name,      \* restore's argument: <<>> when omitted, else <<name>>
    follow,           \* logs: the --follow flag
    pc,               \* position in the handler
    issued,           \* external commands attempted, in order
    console,          \* messages printed
    exit_code,        \* the process exit status, NoExit while running
    confirmed,        \* the confirmation gate: "unasked", "yes" or "no"
    backup_dir,       \* backup / restore: the directory worked on, <<>> if none
    mysql_pass,       \* backup / restore: the password looked up ("" if none)
    progress,         \* backup / restore: what each step reported
    table,            \* restore: the rows of the table of backups printed
    services_to_stop, \* stop: the resolved service list
    merged_env,       \* start: the environment overrides merged so far
    redis_password,   \* redis-cluster-init: the password looked up ("" if none)
    create_error,     \* redis-cluster-init: how the cluster create failed ("" if not)
    returncode,       \* redis-cluster-init: the status of the password lookup, -1 before
    last_start        \* what the invocation before this one found the VM to be

\* The VaultClient call, which no command of the CLI touches.
vault_client == <<vault_pc, vault_call, vault_requests, vault_response, vault_result>>

world == <<vm, containers, volumes, env_file, backups, root_token, clock, profiles_config,
           docker, colima, profile_envs, cluster, other_dirs, vault_client>>
vars == <<vm, containers, volumes, env_file, backups, root_token, clock, profiles_config,
          docker, colima, profile_envs, cluster, other_dirs, vault_pc, vault_call,
          vault_requests, vault_response, vault_result, runs, command, profile, backup_name,
          follow, table, pc, issued,
          console, exit_code, confirmed, backup_dir, mysql_pass, progress, services_to_stop,
          merged_env, redis_password, create_error, returncode, last_start>>

\* ------------------------------------------------------------------ values
NoExit == "running"

\* The stateful services backup and restore handle, in handler order.
DataServices == {"postgres", "mysql", "mongodb", "forgejo"}

\* The file each step writes into the backup directory.
ArtifactOf ==
    [postgres |-> "postgres_all.sql", mysql |-> "mysql_all.sql",
     mongodb |-> "mongodb_dump.archive", forgejo |-> "forgejo_data.tar.gz"]

ServiceArtifacts == {ArtifactOf[s] : s \in DataServices}
EnvBackup == ".env.backup"
ArtifactNames == ServiceArtifacts \cup {EnvBackup}

\* The steps of backup and restore, and the report before any step ran.
Steps == DataServices \cup {"env"}
NoProgress == [s \in Steps |-> "pending"]

\* A directory with no file in it, and the value of a name with no directory.
EmptyDir == [a \in ArtifactNames |-> "absent"]
NoDir == [a \in ArtifactNames |-> "nodir"]

\* How an executable resolves: found, not in PATH (FileNotFoundError), or
\* found but not runnable (another OSError such as PermissionError).
ToolStates == {"ok", "missing", "unusable"}

\* Exit statuses of an external process: success and one failure status.
ReturnCodes == {0, 2}

\* The variables a profile's override file may set, and their values.
EnvKeys == {"K", "J"}
EnvValues == {"1", "2"}

\* A mapping from variable names to values (a dict of str to str), the empty
\* one, and the directory of override files with no file in it.
EnvMaps == UNION {[S -> EnvValues] : S \in SUBSET EnvKeys}
EmptyEnv == [k \in {} |-> "1"]
NoEnvFiles == [p \in {} |-> EmptyEnv]

\* The override files of the repository's profiles, as far as the handlers
\* can tell them apart: two profiles set the same variable differently, the
\* other profiles have no file.
DefaultEnvFiles ==
    [minimal |-> [K |-> "1"], standard |-> [K |-> "2", J |-> "1"]]

\* ------------------------------------------------------------------ helpers
\* run_command: what the call does to the caller, given how the executable
\* resolves, the check flag and the process's exit status.
\*   "return": the (returncode, stdout, stderr) tuple is returned
\*   "exit":   sys.exit(code), a SystemExit that `except Exception` lets through
\*   "raise":  an exception run_command does not catch
run_command(tool, check, rc) ==
    IF tool = "missing" THEN [kind |-> "exit", code |-> 1]
    ELSE IF tool = "unusable" THEN [kind |-> "raise", code |-> 1]
    ELSE IF check /\ rc # 0 THEN [kind |-> "exit", code |-> rc]
    ELSE [kind |-> "return", code |-> rc]

\* subprocess.run(..., check=False) called directly: returns the status, or
\* raises when the executable cannot be run.
subprocess_run(tool, rc) ==
    IF tool = "ok" THEN [kind |-> "return", code |-> rc]
    ELSE [kind |-> "raise", code |-> 1]

\* check_colima_status: run_command(["colima", "status"], check=False,
\* capture=True); TRUE iff it returned 0 and reported "running".
check_colima_status ==
    LET r == run_command(colima, FALSE, IF vm = "Running" THEN 0 ELSE 2)
    IN  [kind |-> r.kind, code |-> r.code,
         running |-> (r.kind = "return" /\ r.code = 0)]

\* get_vault_token: None ("") without the file, else its stripped text.
get_vault_token == IF root_token = "absent" THEN "" ELSE root_token

\* check_vault_token: the file exists.
check_vault_token == root_token # "absent"

\* What no step of a handler changes: the invocation, its arguments, the
\* executables, the profiles' override files and what went before.
invocation == <<runs, command, profile, backup_name, follow, table, docker, colima,
                profile_envs, other_dirs, last_start, vault_client>>

\* The handler goes on to its next step.
Continue(next, msgs) ==
    /\ pc' = next
    /\ console' = console \cup msgs
    /\ UNCHANGED exit_code

\* The handler stops: the process ends with this status.
Terminate(code, msgs) ==
    /\ pc' = "done"
    /\ exit_code' = code
    /\ console' = console \cup msgs

\* A call of run_command ended the process (sys.exit or an uncaught exception).
Die(r) ==
    Terminate(r.code, IF r.kind = "exit" THEN {"Error running command"} ELSE {"Traceback"})

\* ------------------------------------------------------------------ catalog
\* profiles.yaml as the handlers read it: "profiles" and "custom_profiles",
\* each a mapping from a profile name to its ordered "services" list.
DefaultCatalog ==
    [profiles |-> [minimal |-> <<"vault", "postgres">>,
                   standard |-> <<"vault", "postgres", "mysql", "redis-1">>,
                   reference |-> <<"api", "postgres">>],
     custom_profiles |-> [custom |-> <<"mysql", "redis-1">>]]

\* Every service a catalog names.
ServicesOf(cfg) ==
    UNION ({{cfg.profiles[p][i] : i \in 1..Len(cfg.profiles[p])} : p \in DOMAIN cfg.profiles}
           \cup {{cfg.custom_profiles[p][i] : i \in 1..Len(cfg.custom_profiles[p])} :
                    p \in DOMAIN cfg.custom_profiles})

\* A name no catalog of the model defines.
UnknownName == "nosuch"

\* The profile names an invocation may be given.
RequestNames(cfg) == DOMAIN cfg.profiles \cup DOMAIN cfg.custom_profiles \cup {UnknownName}

\* Sequences over S of length at most n.
SeqsUpTo(S, n) == UNION {[1..k -> S] : k \in 0..n}

\* Names a backup directory can have: 0 is a backup taken before the
\* behaviour starts, 1..MaxClock are the seconds the clock can show.
BackupNames == 0..MaxClock

\* A backup set taken earlier, holding every artifact.
OldBackup == [a \in ArtifactNames |-> "old"]

\* ------------------------------------------------------------------ VaultClient values
\* One character of each kind a secret path can hold: an alphanumeric one,
\* the three other allowed ones, and four that are not allowed.
AllowedChars == {"a", "-", "_", "/"}
PathChars == AllowedChars \cup {".", ";", " ", "\n"}

\* The paths a caller may pass.
Paths == SeqsUpTo(PathChars, MaxPathLen)

\* The fields a secret may hold and their values; the data of a secret.
SecretFields == {"password", "user"}
SecretValues == {"s1", "s2"}
SecretMaps == UNION {[S -> SecretValues] : S \in SUBSET SecretFields}
NoFields == [f \in {} |-> "s1"]

\* The key argument: None (or any falsy value), or a field name.
NoKey == ""
Keys == SecretFields \cup {NoKey}

\* check_health's report before it is filled in.
NoReport ==
    [status |-> "", initialized |-> FALSE, sealed |-> FALSE, standby |-> FALSE, error |-> ""]

\* What a call gives back: the value returned, or the exception raised with
\* the resource it is scoped to and the cause it carries in its details.
Returned(value, report) ==
    [kind |-> "return", error |-> "", scope |-> "", cause |-> "",
     value |-> value, report |-> report]

Raised(error, scope, cause) ==
    [kind |-> "raise", error |-> error, scope |-> scope, cause |-> cause,
     value |-> NoFields, report |-> NoReport]

NoResult ==
    [kind |-> "none", error |-> "", scope |-> "", cause |-> "",
     value |-> NoFields, report |-> NoReport]

NoCall == [op |-> "none", path |-> <<>>, key |-> NoKey]

NoResponse == [kind |-> "none", status |-> 0, data |-> NoFields, json |-> FALSE]

\* No call of the client is under way.
InitVault ==
    /\ vault_pc = "idle"
    /\ vault_call = NoCall
    /\ vault_requests = <<>>
    /\ vault_response = NoResponse
    /\ vault_result = NoResult

\* ------------------------------------------------------------------ initial states
InitWorld(catalogs, tools) ==
    /\ profiles_config \in catalogs
    /\ docker \in tools
    /\ colima \in tools
    /\ vm \in {"Running", "Stopped"}
    /\ containers = IF vm = "Running" THEN ServicesOf(profiles_config) ELSE {}
    /\ volumes = [s \in DataServices |-> "live"]
    /\ env_file \in {"absent", "live"}
    /\ backups = [n \in BackupNames |-> IF n = 0 THEN OldBackup ELSE NoDir]
    /\ root_token \in {"absent", "", "tok"}
    /\ clock = 1
    /\ profile_envs = DefaultEnvFiles
    /\ cluster = "none"
    /\ other_dirs = {}

InitProc ==
    /\ runs = 0
    /\ command = "none"
    /\ profile = <<>>
    /\ backup_name = <<>>
    /\ follow = FALSE
    /\ table = <<>>
    /\ pc = "idle"
    /\ issued = <<>>
    /\ console = {}
    /\ exit_code = NoExit
    /\ confirmed = "unasked"
    /\ backup_dir = <<>>
    /\ mysql_pass = ""
    /\ progress = NoProgress
    /\ services_to_stop = <<>>
    /\ merged_env = EmptyEnv
    /\ redis_password = ""
    /\ create_error = ""
    /\ returncode = -1
    /\ last_start = "none"
    /\ InitVault

Init == InitWorld({DefaultCatalog}, ToolStates) /\ InitProc

\* ------------------------------------------------------------------ entry point
\* Nothing of an invocation is left: the orchestrator keeps no state of its
\* own between invocations.
NoInvocation ==
    /\ command' = "none"
    /\ profile' = <<>>
    /\ backup_name' = <<>>
    /\ follow' = FALSE
    /\ table' = <<>>
    /\ issued' = <<>>
    /\ console' = {}
    /\ exit_code' = NoExit
    /\ confirmed' = "unasked"
    /\ backup_dir' = <<>>
    /\ mysql_pass' = ""
    /\ progress' = NoProgress
    /\ services_to_stop' = <<>>
    /\ merged_env' = EmptyEnv
    /\ redis_password' = ""
    /\ create_error' = ""
    /\ returncode' = -1

\* cli(): click parses the arguments and dispatches to the handler.  start
\* without --profile gets the option's default, ["standard"].
cli(cmds) ==
    /\ pc = "idle"
    /\ runs < MaxRuns
    /\ runs' = runs + 1
    /\ \E c \in cmds :
          /\ command' = c
          /\ pc' = c
          /\ \E ps \in IF c \in {"start", "stop"}
                        THEN SeqsUpTo(RequestNames(profiles_config), MaxProfiles)
                        ELSE {<<>>} :
                profile' = IF c = "start" /\ ps = <<>> THEN <<"standard">> ELSE ps
          /\ backup_name' \in IF c = "restore"
                               THEN {<<>>} \cup {<<n>> : n \in BackupNames}
                               ELSE {<<>>}
          /\ follow' \in IF c = "logs" THEN BOOLEAN ELSE {FALSE}
    /\ UNCHANGED <<world, table, issued, console, exit_code, confirmed, backup_dir, mysql_pass,
                   progress, services_to_stop, merged_env, redis_password, create_error,
                   returncode, last_start>>

\* What start's first step found: the VM it started, the VM it observed
\* running, or nothing (another command, or a start that never got that far).
vm_found ==
    IF command # "start" THEN "none"
    ELSE IF "Colima VM started" \in console THEN "started"
    ELSE IF "Colima VM already running" \in console THEN "already running"
    ELSE "none"

\* The process has ended; the next invocation starts from the world it left.
cli_exit ==
    /\ pc = "done"
    /\ pc' = "idle"
    /\ NoInvocation
    /\ last_start' = vm_found
    /\ UNCHANGED <<world, runs>>

\* ------------------------------------------------------------------ profiles
\* The elements of a sequence.
Range(xs) == {xs[i] : i \in 1..Len(xs)}

\* The name is a key of "profiles" or of "custom_profiles".
IsKnownProfile(cfg, p) == p \in DOMAIN cfg.profiles \/ p \in DOMAIN cfg.custom_profiles

\* The "services" list of a known profile, "profiles" looked up first.
profile_services(cfg, p) ==
    IF p \in DOMAIN cfg.profiles THEN cfg.profiles[p] ELSE cfg.custom_profiles[p]

\* services_to_stop after the loop has extended it with every requested
\* profile's services, in request order.
RECURSIVE extend_all(_, _)
extend_all(cfg, ps) ==
    IF ps = <<>> THEN <<>>
    ELSE extend_all(cfg, SubSeq(ps, 1, Len(ps) - 1)) \o profile_services(cfg, ps[Len(ps)])

\* A dedup that keeps the place of the last occurrence of a key, not the first.
RECURSIVE dict_fromkeys_keeping_last(_)
dict_fromkeys_keeping_last(xs) ==
    IF xs = <<>> THEN <<>>
    ELSE LET keys == dict_fromkeys_keeping_last(Tail(xs))
         IN  IF Head(xs) \in Range(keys) THEN keys ELSE <<Head(xs)>> \o keys

\* list(dict.fromkeys(xs)): the keys are inserted left to right, and a key
\* that is already in the dict keeps the place of its first insertion.
RECURSIVE dict_fromkeys(_)
dict_fromkeys(xs) ==
    IF xs = <<>> THEN <<>>
    ELSE LET keys == dict_fromkeys(SubSeq(xs, 1, Len(xs) - 1))
             x == xs[Len(xs)]
         IN  IF x \in Range(keys) THEN keys ELSE Append(keys, x)

\* The requested names before the first unknown one (all of them if none is).
RECURSIVE known_prefix(_, _)
known_prefix(cfg, ps) ==
    IF ps = <<>> \/ ~IsKnownProfile(cfg, Head(ps)) THEN <<>>
    ELSE <<Head(ps)>> \o known_prefix(cfg, Tail(ps))

\* The services docker compose selects with the given --profile options.
ComposeServices(cfg, names) ==
    UNION {Range(profile_services(cfg, p)) : p \in {q \in names : IsKnownProfile(cfg, q)}}

\* load_profile_env: the variables of <profile>.env, {} when there is no file.
load_profile_env(p) == IF p \in DOMAIN profile_envs THEN profile_envs[p] ELSE EmptyEnv

\* An update that keeps the value a key already has.
dict_update_keeping_existing(m, e) ==
    [k \in DOMAIN m \cup DOMAIN e |-> IF k \in DOMAIN m THEN m[k] ELSE e[k]]

\* m.update(e): every key of e is set to e's value, the other keys of m stay.
dict_update(m, e) ==
    [k \in DOMAIN m \cup DOMAIN e |-> IF k \in DOMAIN e THEN e[k] ELSE m[k]]

\* merged_env after the loop has updated it with every requested profile's
\* variables, in request order.
RECURSIVE merge_profile_envs(_)
merge_profile_envs(ps) ==
    IF ps = <<>> THEN EmptyEnv
    ELSE dict_update(merge_profile_envs(SubSeq(ps, 1, Len(ps) - 1)),
                     load_profile_env(ps[Len(ps)]))

\* The message for each requested profile whose file set at least one variable.
loaded_overrides(ps) ==
    IF \E i \in 1..Len(ps) : DOMAIN load_profile_env(ps[i]) # {}
    THEN {"Loaded environment overrides"} ELSE {}

\* The profiles start names in its orphan cleanup.
CleanupProfiles == {"minimal", "standard", "full", "reference"}

\* What the steps of the lifecycle commands leave alone.
lifecycle_frame == <<volumes, env_file, backups, root_token, clock, profiles_config,
                     cluster, invocation, confirmed, backup_dir, mysql_pass, progress>>

\* ------------------------------------------------------------------ start
\* A start that validates only the first requested name.
start_begin_checking_first_only ==
    /\ pc = "start"
    /\ IF profile # <<>> /\ ~IsKnownProfile(profiles_config, profile[1])
       THEN /\ Terminate(1, {"Error: Unknown profile", "Available profiles"})
            /\ UNCHANGED merged_env
       ELSE /\ merged_env' = merge_profile_envs(profile)
            /\ Continue("start_check_vm",
                        {"Starting with profile(s)"} \cup loaded_overrides(profile))
    /\ UNCHANGED <<vm, containers, lifecycle_frame, issued, services_to_stop, redis_password,
                   create_error, returncode>>

\* Every requested profile must be in the catalog: sys.exit(1) otherwise.
\* Then the profiles' environment overrides are merged.
start_begin ==
    /\ pc = "start"
    /\ IF \E i \in 1..Len(profile) : ~IsKnownProfile(profiles_config, profile[i])
       THEN /\ Terminate(1, {"Error: Unknown profile", "Available profiles"})
            /\ UNCHANGED merged_env
       ELSE /\ merged_env' = merge_profile_envs(profile)
            /\ Continue("start_check_vm",
                        {"Starting with profile(s)"} \cup loaded_overrides(profile))
    /\ UNCHANGED <<vm, containers, lifecycle_frame, issued, services_to_stop, redis_password,
                   create_error, returncode>>

\* A start that starts the VM whatever the status query says.
start_check_vm_always_starting ==
    /\ pc = "start_check_vm"
    /\ issued' = Append(issued, "colima status")
    /\ LET r == check_colima_status IN
       IF r.kind # "return" THEN Die(r)
       ELSE Continue("start_colima", {})
    /\ UNCHANGED <<vm, containers, lifecycle_frame, services_to_stop,
                   merged_env, redis_password, create_error, returncode>>

\* Step 1: the VM is started only when it is not observed running.
start_check_vm ==
    /\ pc = "start_check_vm"
    /\ issued' = Append(issued, "colima status")
    /\ LET r == check_colima_status IN
       IF r.kind # "return" THEN Die(r)
       ELSE IF r.running THEN Continue("start_cleanup", {"Colima VM already running"})
       ELSE Continue("start_colima", {})
    /\ UNCHANGED <<vm, containers, lifecycle_frame, services_to_stop,
                   merged_env, redis_password, create_error, returncode>>

\* A VM start whose exit status is not checked: start goes on after a failure.
start_colima_unchecked ==
    /\ pc = "start_colima"
    /\ issued' = Append(issued, "colima start")
    /\ \E rc \in ReturnCodes :
          LET r == run_command(colima, FALSE, rc) IN
          IF r.kind # "return"
          THEN /\ Die(r)
               /\ UNCHANGED vm
          ELSE /\ vm' = IF r.code = 0 THEN "Running" ELSE vm
               /\ Continue("start_cleanup", {"Colima VM started"})
    /\ UNCHANGED <<containers, lifecycle_frame, services_to_stop,
                   merged_env, redis_password, create_error, returncode>>

\* run_command(["colima", "start", ...], env=merged_env)
start_colima ==
    /\ pc = "start_colima"
    /\ issued' = Append(issued, "colima start")
    /\ \E rc \in ReturnCodes :
          LET r == run_command(colima, TRUE, rc) IN
          IF r.kind # "return"
          THEN /\ Die(r)
               /\ UNCHANGED vm
          ELSE /\ vm' = "Running"
               /\ Continue("start_cleanup", {"Colima VM started"})
    /\ UNCHANGED <<containers, lifecycle_frame, services_to_stop,
                   merged_env, redis_password, create_error, returncode>>

\* Step 2: docker compose --profile minimal ... --profile reference down,
\* with check=False.
start_cleanup ==
    /\ pc = "start_cleanup"
    /\ issued' = Append(issued, "docker compose down (cleanup)")
    /\ \E rc \in ReturnCodes :
          LET r == run_command(docker, FALSE, rc) IN
          IF r.kind # "return"
          THEN /\ Die(r)
               /\ UNCHANGED containers
          ELSE /\ Continue("start_up", {})
               /\ containers' = IF r.code = 0
                                THEN containers \ ComposeServices(profiles_config, CleanupProfiles)
                                ELSE containers
    /\ UNCHANGED <<vm, lifecycle_frame, services_to_stop,
                   merged_env, redis_password, create_error, returncode>>

\* Step 3: docker compose --profile <p> ... up -d, with check=True.
start_up ==
    /\ pc = "start_up"
    /\ issued' = Append(issued, "docker compose up")
    /\ \E rc \in ReturnCodes :
          LET r == run_command(docker, TRUE, rc) IN
          IF r.kind # "return"
          THEN /\ Die(r)
               /\ UNCHANGED containers
          ELSE /\ Continue("start_ps", {"Services started successfully"})
               /\ containers' = containers \cup ComposeServices(profiles_config, Range(profile))
    /\ UNCHANGED <<vm, lifecycle_frame, services_to_stop,
                   merged_env, redis_password, create_error, returncode>>

\* Step 4: docker compose ps, with check=True.
start_ps ==
    /\ pc = "start_ps"
    /\ issued' = Append(issued, "docker compose ps")
    /\ \E rc \in ReturnCodes :
          LET r == run_command(docker, TRUE, rc) IN
          IF r.kind # "return" THEN Die(r) ELSE Terminate(0, {"Next Steps"})
    /\ UNCHANGED <<vm, containers, lifecycle_frame, services_to_stop,
                   merged_env, redis_password, create_error, returncode>>

start == start_begin \/ start_check_vm \/ start_colima \/ start_cleanup \/ start_up \/ start_ps

\* ------------------------------------------------------------------ stop
\* With --profile the service list is resolved from the catalog; the handler
\* returns at the first unknown name.
stop_begin ==
    /\ pc = "stop"
    /\ IF profile = <<>>
       THEN /\ Continue("stop_down", {"Stopping all services and Colima VM"})
            /\ UNCHANGED services_to_stop
       ELSE IF \E i \in 1..Len(profile) : ~IsKnownProfile(profiles_config, profile[i])
       THEN /\ services_to_stop' = extend_all(profiles_config, known_prefix(profiles_config, profile))
            /\ Terminate(0, {"Unknown profile"})
       ELSE LET resolved == dict_fromkeys(extend_all(profiles_config, profile)) IN
            /\ services_to_stop' = resolved
            /\ IF resolved # <<>>
               THEN Continue("stop_services", {"Stopping services"})
               ELSE Terminate(0, {"No services found for specified profile(s)"})
    /\ UNCHANGED <<vm, containers, lifecycle_frame, issued,
                   merged_env, redis_password, create_error, returncode>>

\* A docker stop whose exit status is checked.
stop_services_checked ==
    /\ pc = "stop_services"
    /\ issued' = Append(issued, "docker stop")
    /\ \E rc \in ReturnCodes :
          LET r == run_command(docker, TRUE, rc) IN
          IF r.kind # "return"
          THEN /\ Die(r)
               /\ UNCHANGED containers
          ELSE /\ Terminate(0, {"Stopped services"})
               /\ containers' = containers \ Range(services_to_stop)
    /\ UNCHANGED <<vm, lifecycle_frame, services_to_stop,
                   merged_env, redis_password, create_error, returncode>>

\* docker stop dev-<svc> ..., with check=False.
stop_services ==
    /\ pc = "stop_services"
    /\ issued' = Append(issued, "docker stop")
    /\ \E rc \in ReturnCodes :
          LET r == run_command(docker, FALSE, rc) IN
          IF r.kind # "return"
          THEN /\ Die(r)
               /\ UNCHANGED containers
          ELSE /\ Terminate(0, {"Stopped services"})
               /\ containers' = IF r.code = 0 THEN containers \ Range(services_to_stop)
                                ELSE containers
    /\ UNCHANGED <<vm, lifecycle_frame, services_to_stop,
                   merged_env, redis_password, create_error, returncode>>

\* A teardown whose exit status is not checked: stop goes on to the VM.
stop_down_unchecked ==
    /\ pc = "stop_down"
    /\ issued' = Append(issued, "docker compose down")
    /\ \E rc \in ReturnCodes :
          LET r == run_command(docker, FALSE, rc) IN
          IF r.kind # "return"
          THEN /\ Die(r)
               /\ UNCHANGED containers
          ELSE /\ Continue("stop_check_vm", {"Docker services stopped"})
               /\ containers' = IF r.code = 0 THEN {} ELSE containers
    /\ UNCHANGED <<vm, lifecycle_frame, services_to_stop,
                   merged_env, redis_password, create_error, returncode>>

\* docker compose down, with check=True.
stop_down ==
    /\ pc = "stop_down"
    /\ issued' = Append(issued, "docker compose down")
    /\ \E rc \in ReturnCodes :
          LET r == run_command(docker, TRUE, rc) IN
          IF r.kind # "return"
          THEN /\ Die(r)
               /\ UNCHANGED containers
          ELSE /\ Continue("stop_check_vm", {"Docker services stopped"})
               /\ containers' = {}
    /\ UNCHANGED <<vm, lifecycle_frame, services_to_stop,
                   merged_env, redis_password, create_error, returncode>>

\* A stop that stops the VM whatever the status query says.
stop_check_vm_always_stopping ==
    /\ pc = "stop_check_vm"
    /\ issued' = Append(issued, "colima status")
    /\ LET r == check_colima_status IN
       IF r.kind # "return" THEN Die(r)
       ELSE Continue("stop_colima", {})
    /\ UNCHANGED <<vm, containers, lifecycle_frame, services_to_stop,
                   merged_env, redis_password, create_error, returncode>>

\* The VM is stopped only when it is observed running.
stop_check_vm ==
    /\ pc = "stop_check_vm"
    /\ issued' = Append(issued, "colima status")
    /\ LET r == check_colima_status IN
       IF r.kind # "return" THEN Die(r)
       ELSE IF r.running THEN Continue("stop_colima", {})
       ELSE Terminate(0, {"Colima VM was not running"})
    /\ UNCHANGED <<vm, containers, lifecycle_frame, services_to_stop,
                   merged_env, redis_password, create_error, returncode>>

\* A VM stop whose exit status is not checked: stop ends normally after a failure.
stop_colima_unchecked ==
    /\ pc = "stop_colima"
    /\ issued' = Append(issued, "colima stop")
    /\ \E rc \in ReturnCodes :
          LET r == run_command(colima, FALSE, rc) IN
          IF r.kind # "return"
          THEN /\ Die(r)
               /\ UNCHANGED <<vm, containers>>
          ELSE /\ vm' = IF r.code = 0 THEN "Stopped" ELSE vm
               /\ containers' = IF r.code = 0 THEN {} ELSE containers
               /\ Terminate(0, {"Colima VM stopped"})
    /\ UNCHANGED <<lifecycle_frame, services_to_stop, merged_env,
                   redis_password, create_error, returncode>>

\* run_command(["colima", "stop", "-p", COLIMA_PROFILE])
stop_colima ==
    /\ pc = "stop_colima"
    /\ issued' = Append(issued, "colima stop")
    /\ \E rc \in ReturnCodes :
          LET r == run_command(colima, TRUE, rc) IN
          IF r.kind # "return"
          THEN /\ Die(r)
               /\ UNCHANGED <<vm, containers>>
          ELSE /\ vm' = "Stopped"
               /\ containers' = {}
               /\ Terminate(0, {"Colima VM stopped"})
    /\ UNCHANGED <<lifecycle_frame, services_to_stop, merged_env,
                   redis_password, create_error, returncode>>

stop == stop_begin \/ stop_services \/ stop_down \/ stop_check_vm \/ stop_colima

\* ------------------------------------------------------------------ restart, health
\* A restart that does not stop when the VM is not running.
restart_begin_without_vm_check ==
    /\ pc = "restart"
    /\ issued' = Append(issued, "colima status")
    /\ LET r == check_colima_status IN
       IF r.kind # "return" THEN Die(r)
       ELSE Continue("restart_services", {"Restarting Docker services"})
    /\ UNCHANGED <<vm, containers, lifecycle_frame, services_to_stop,
                   merged_env, redis_password, create_error, returncode>>

\* check_colima_status(), then the message that the restart begins.
restart_begin ==
    /\ pc = "restart"
    /\ issued' = Append(issued, "colima status")
    /\ LET r == check_colima_status IN
       IF r.kind # "return" THEN Die(r)
       ELSE IF ~r.running THEN Terminate(0, {"Error: Colima VM is not running"})
       ELSE Continue("restart_services", {"Restarting Docker services"})
    /\ UNCHANGED <<vm, containers, lifecycle_frame, services_to_stop,
                   merged_env, redis_password, create_error, returncode>>

\* docker compose restart, with check=True.
restart_services ==
    /\ pc = "restart_services"
    /\ issued' = Append(issued, "docker compose restart")
    /\ \E rc \in ReturnCodes :
          LET r == run_command(docker, TRUE, rc) IN
          IF r.kind # "return" THEN Die(r)
          ELSE Continue("restart_ps", {"Services restarted successfully"})
    /\ UNCHANGED <<vm, containers, lifecycle_frame, services_to_stop,
                   merged_env, redis_password, create_error, returncode>>

\* docker compose ps, with check=False.
restart_ps ==
    /\ pc = "restart_ps"
    /\ issued' = Append(issued, "docker compose ps")
    /\ \E rc \in ReturnCodes :
          LET r == run_command(docker, FALSE, rc) IN
          IF r.kind # "return" THEN Die(r) ELSE Terminate(0, {})
    /\ UNCHANGED <<vm, containers, lifecycle_frame, services_to_stop,
                   merged_env, redis_password, create_error, returncode>>

restart == restart_begin \/ restart_services \/ restart_ps

health_begin ==
    /\ pc = "health"
    /\ issued' = Append(issued, "colima status")
    /\ LET r == check_colima_status IN
       IF r.kind # "return" THEN Die(r)
       ELSE IF ~r.running THEN Terminate(0, {"Error: Colima VM is not running"})
       ELSE Continue("health_ps", {})
    /\ UNCHANGED <<vm, containers, lifecycle_frame, services_to_stop,
                   merged_env, redis_password, create_error, returncode>>

\* docker compose ps --format json, with check=False; no output means no
\* service is running.
health_ps ==
    /\ pc = "health_ps"
    /\ issued' = Append(issued, "docker compose ps")
    /\ \E rc \in ReturnCodes :
          LET r == run_command(docker, FALSE, rc) IN
          IF r.kind # "return" THEN Die(r)
          ELSE IF r.code # 0 \/ containers = {} THEN Terminate(0, {"No services running"})
          ELSE Terminate(0, {"Service Health Status"})
    /\ UNCHANGED <<vm, containers, lifecycle_frame, services_to_stop,
                   merged_env, redis_password, create_error, returncode>>

health == health_begin \/ health_ps

\* ------------------------------------------------------------------ logs
\* docker compose logs [-f] --tail N [service] through run_command(check=False)
\* with nothing captured: the process is started.
logs_begin ==
    /\ pc = "logs"
    /\ issued' = Append(issued, "docker compose logs")
    /\ IF docker # "ok" THEN Die(run_command(docker, FALSE, 0))
       ELSE Continue("logs_streaming", {})
    /\ UNCHANGED <<vm, containers, lifecycle_frame, services_to_stop,
                   merged_env, redis_password, create_error, returncode>>

\* A handler with no except clause: the interrupt ends the process with a
\* traceback and the status of an interrupted process.
logs_streaming_uncaught ==
    /\ pc = "logs_streaming"
    /\ \/ Continue("logs_streaming", {"log output"})
       \/ Terminate(130, {"Traceback"})
       \/ /\ ~follow \/ containers = {}
          /\ Terminate(0, {})
    /\ UNCHANGED <<vm, containers, lifecycle_frame, issued, services_to_stop,
                   merged_env, redis_password, create_error, returncode>>

\* While subprocess.run waits the process writes to the terminal.  A
\* KeyboardInterrupt passes through run_command, which does not catch it, to
\* the except clause of logs.  The process ends by itself, with a status
\* that is not looked at, when it has written the lines asked for; with -f
\* only when there is no container left to follow.
logs_streaming ==
    /\ pc = "logs_streaming"
    /\ \/ Continue("logs_streaming", {"log output"})
       \/ Terminate(0, {"Log streaming stopped"})
       \/ /\ ~follow \/ containers = {}
          /\ Terminate(0, {})
    /\ UNCHANGED <<vm, containers, lifecycle_frame, issued, services_to_stop,
                   merged_env, redis_password, create_error, returncode>>

logs == logs_begin \/ logs_streaming

\* ------------------------------------------------------------------ redis-cluster-init
\* The member nodes of the cache cluster.
ClusterNodes == {"redis-1", "redis-2", "redis-3"}

\* How a cluster create can end, given whether a password was passed: it
\* fails when the node it is run in is down; on a cluster that exists it
\* fails with a message that says so; with every node running and a password
\* it can succeed; it can always fail otherwise.
CreateOutcomes(password) ==
    IF "redis-1" \notin containers THEN {[rc |-> 2, error |-> "other"]}
    ELSE IF cluster = "created" THEN {[rc |-> 2, error |-> "already"]}
    ELSE {[rc |-> 2, error |-> "other"]}
         \cup (IF ClusterNodes \subseteq containers /\ password # ""
               THEN {[rc |-> 0, error |-> ""]} ELSE {})

\* What the steps of redis-cluster-init leave alone.
cluster_frame == <<vm, containers, volumes, env_file, backups, root_token, clock,
                   profiles_config, invocation, confirmed, backup_dir, mysql_pass, progress,
                   services_to_stop, merged_env>>

\* docker ps --filter name=dev-redis-1 with check=False, then the root token
\* file must exist.
redis_cluster_init_begin ==
    /\ pc = "redis-cluster-init"
    /\ issued' = Append(issued, "docker ps dev-redis-1")
    /\ \E rc \in ReturnCodes :
          LET r == run_command(docker, FALSE, rc) IN
          IF r.kind # "return" THEN Die(r)
          ELSE IF r.code # 0 \/ "redis-1" \notin containers
          THEN Terminate(0, {"Error: Redis containers are not running"})
          ELSE IF ~check_vault_token
          THEN Terminate(0, {"Warning: Vault token not found"})
          ELSE Continue("redis_cluster_init_password", {})
    /\ UNCHANGED <<cluster_frame, cluster, redis_password, create_error, returncode>>

\* A lookup whose failure is passed over: the script runs without a password.
redis_cluster_init_password_unchecked ==
    /\ pc = "redis_cluster_init_password"
    /\ issued' = Append(issued, "vault kv get secret/redis-1")
    /\ \E rc \in ReturnCodes, stdout \in {"", "pw"} :
          LET r == run_command(docker, FALSE, rc) IN
          IF r.kind # "return"
          THEN /\ Die(r)
               /\ UNCHANGED <<redis_password, returncode>>
          ELSE /\ returncode' = r.code
               /\ redis_password' = IF r.code = 0 THEN stdout ELSE ""
               /\ Continue("redis_cluster_init_script", {})
    /\ UNCHANGED <<cluster_frame, cluster, create_error>>

\* vault kv get -field=password secret/redis-1, with check=False; the output
\* is stripped.
redis_cluster_init_password ==
    /\ pc = "redis_cluster_init_password"
    /\ issued' = Append(issued, "vault kv get secret/redis-1")
    /\ \E rc \in ReturnCodes, stdout \in {"", "pw"} :
          LET r == run_command(docker, FALSE, rc) IN
          IF r.kind # "return"
          THEN /\ Die(r)
               /\ UNCHANGED <<redis_password, returncode>>
          ELSE /\ returncode' = r.code
               /\ IF r.code # 0
                  THEN /\ Terminate(0, {"Error: Could not retrieve Redis password from Vault"})
                       /\ redis_password' = ""
                  ELSE /\ redis_password' = stdout
                       /\ Continue("redis_cluster_init_script", {})
    /\ UNCHANGED <<cluster_frame, cluster, create_error>>

\* bash redis-cluster-init.sh with REDIS_PASSWORD, check=False and nothing
\* captured.  The script creates the cluster; when the cluster exists it may
\* end with either status.
redis_cluster_init_script ==
    /\ pc = "redis_cluster_init_script"
    /\ issued' = Append(issued, "redis-cluster-init.sh")
    /\ \E o \in CreateOutcomes(redis_password)
                 \cup (IF cluster = "created" /\ "redis-1" \in containers
                       THEN {[rc |-> 0, error |-> "already"]} ELSE {}) :
          /\ create_error' = o.error
          /\ cluster' = IF o.rc = 0 THEN "created" ELSE cluster
          /\ IF o.rc # 0 THEN Terminate(0, {"Error: Redis cluster initialization failed"})
             ELSE Terminate(0, {})
    /\ UNCHANGED <<cluster_frame, redis_password, returncode>>

redis_cluster_init ==
    \/ redis_cluster_init_begin
    \/ redis_cluster_init_password
    \/ redis_cluster_init_script

\* ---------------------------------------------- redis-cluster-init (manage-devstack.py)
\* The command as the script at the repository root has it.  docker ps
\* --filter name=dev-redis-1 with check=False: only its status is looked at.
\* Without the root token file the command goes on with no password.
legacy_redis_cluster_init_begin ==
    /\ pc = "legacy redis-cluster-init"
    /\ issued' = Append(issued, "docker ps dev-redis-1")
    /\ \E rc \in ReturnCodes :
          LET r == run_command(docker, FALSE, rc) IN
          IF r.kind # "return" THEN Die(r)
          ELSE IF r.code # 0
          THEN Terminate(0, {"Error: Redis containers are not running"})
          ELSE IF ~check_vault_token
          THEN Continue("legacy_redis_cluster_init_create",
                        {"Warning: Vault token not found", "Proceeding without authentication"})
          ELSE Continue("legacy_redis_cluster_init_password", {})
    /\ UNCHANGED <<cluster_frame, cluster, redis_password, create_error, returncode>>

\* vault kv get -field=password secret/redis-1, with check=False: the
\* stripped output when it returned 0, "" otherwise.
legacy_redis_cluster_init_password ==
    /\ pc = "legacy_redis_cluster_init_password"
    /\ issued' = Append(issued, "vault kv get secret/redis-1")
    /\ \E rc \in ReturnCodes, stdout \in {"", "pw"} :
          LET r == run_command(docker, FALSE, rc) IN
          IF r.kind # "return"
          THEN /\ Die(r)
               /\ UNCHANGED <<redis_password, returncode>>
          ELSE /\ returncode' = r.code
               /\ redis_password' = IF r.code = 0 THEN stdout ELSE ""
               /\ Continue("legacy_redis_cluster_init_create", {"Initializing Redis cluster"})
    /\ UNCHANGED <<cluster_frame, cluster, create_error>>

\* docker exec dev-redis-1 redis-cli --cluster create ..., with check=False
\* and the output captured.
legacy_redis_cluster_init_create ==
    /\ pc = "legacy_redis_cluster_init_create"
    /\ issued' = Append(issued, "redis-cli --cluster create")
    /\ IF docker # "ok"
       THEN /\ Die(run_command(docker, FALSE, 0))
            /\ UNCHANGED <<cluster, create_error>>
       ELSE \E o \in CreateOutcomes(redis_password) :
               /\ create_error' = o.error
               /\ IF o.rc = 0
                  THEN /\ cluster' = "created"
                       /\ Continue("legacy_redis_cluster_init_nodes",
                                   {"Redis cluster initialized successfully"})
                  ELSE /\ UNCHANGED cluster
                       /\ Terminate(0, {"Error initializing Redis cluster"}
                                        \cup (IF o.error = "already"
                                              THEN {"Cluster may already be initialized"}
                                              ELSE {"stderr"}))
    /\ UNCHANGED <<cluster_frame, redis_password, returncode>>

\* docker exec dev-redis-1 redis-cli cluster nodes, with check=False.
legacy_redis_cluster_init_nodes ==
    /\ pc = "legacy_redis_cluster_init_nodes"
    /\ issued' = Append(issued, "redis-cli cluster nodes")
    /\ \E rc \in ReturnCodes :
          LET r == run_command(docker, FALSE, rc) IN
          IF r.kind # "return" THEN Die(r) ELSE Terminate(0, {})
    /\ UNCHANGED <<cluster_frame, cluster, redis_password, create_error, returncode>>

legacy_redis_cluster_init ==
    \/ legacy_redis_cluster_init_begin
    \/ legacy_redis_cluster_init_password
    \/ legacy_redis_cluster_init_create
    \/ legacy_redis_cluster_init_nodes

\* ------------------------------------------------------------------ reset
\* A reset whose handler body runs whatever the answer is.
reset_confirm_ignoring_answer ==
    /\ pc = "reset"
    /\ \E answer \in BOOLEAN :
          /\ confirmed' = IF answer THEN "yes" ELSE "no"
          /\ Continue("reset_down", {"WARNING: Deleting all data"})
    /\ UNCHANGED <<world, invocation, issued, backup_dir, mysql_pass, progress,
                   services_to_stop, merged_env, redis_password, create_error, returncode>>

\* @click.confirmation_option: without an affirmative answer (--yes, or "y"
\* at the prompt) click aborts before the handler body runs.
reset_confirm ==
    /\ pc = "reset"
    /\ \E answer \in BOOLEAN :
          IF answer
          THEN /\ confirmed' = "yes"
               /\ Continue("reset_down", {"WARNING: Deleting all data"})
          ELSE /\ confirmed' = "no"
               /\ Terminate(1, {"Aborted!"})
    /\ UNCHANGED <<world, invocation, issued, backup_dir, mysql_pass, progress,
                   services_to_stop, merged_env, redis_password, create_error, returncode>>

\* A teardown whose exit status is checked: its failure ends the reset.
reset_down_checked ==
    /\ pc = "reset_down"
    /\ issued' = Append(issued, "docker compose down -v")
    /\ \E rc \in ReturnCodes :
          LET r == run_command(docker, TRUE, rc) IN
          IF r.kind = "return"
          THEN /\ Continue("reset_delete", {})
               /\ containers' = {}
               /\ volumes' = [s \in DataServices |-> "wiped"]
               /\ cluster' = "none"
          ELSE /\ Die(r)
               /\ UNCHANGED <<containers, volumes, cluster>>
    /\ UNCHANGED <<vm, env_file, backups, root_token, clock, profiles_config, invocation,
                   confirmed, backup_dir, mysql_pass, progress, services_to_stop, merged_env,
                   redis_password, create_error, returncode>>

\* run_command(["docker", "compose", "down", "-v"], check=False)
reset_down ==
    /\ pc = "reset_down"
    /\ issued' = Append(issued, "docker compose down -v")
    /\ \E rc \in ReturnCodes :
          LET r == run_command(docker, FALSE, rc) IN
          IF r.kind = "return"
          THEN /\ Continue("reset_delete", {})
               /\ containers' = IF r.code = 0 THEN {} ELSE containers
               /\ volumes' = IF r.code = 0 THEN [s \in DataServices |-> "wiped"] ELSE volumes
               /\ cluster' = IF r.code = 0 THEN "none" ELSE cluster
          ELSE /\ Die(r)
               /\ UNCHANGED <<containers, volumes, cluster>>
    /\ UNCHANGED <<vm, env_file, backups, root_token, clock, profiles_config, invocation,
                   confirmed, backup_dir, mysql_pass, progress, services_to_stop, merged_env,
                   redis_password, create_error, returncode>>

\* run_command(["colima", "delete", "-p", COLIMA_PROFILE, "--force"])
reset_delete ==
    /\ pc = "reset_delete"
    /\ issued' = Append(issued, "colima delete")
    /\ \E rc \in ReturnCodes :
          LET r == run_command(colima, TRUE, rc) IN
          IF r.kind = "return"
          THEN /\ vm' = "Deleted"
               /\ containers' = {}
               /\ volumes' = [s \in DataServices |-> "wiped"]
               /\ cluster' = "none"
               /\ Terminate(0, {"Colima VM has been reset"})
          ELSE /\ Die(r)
               /\ UNCHANGED <<vm, containers, volumes, cluster>>
    /\ UNCHANGED <<env_file, backups, root_token, clock, profiles_config, invocation,
                   confirmed, backup_dir, mysql_pass, progress, services_to_stop, merged_env,
                   redis_password, create_error, returncode>>

reset == reset_confirm \/ reset_down \/ reset_delete

\* ------------------------------------------------------------------ backup
\* The files of the directory being worked on, with file a holding content c.
WriteFile(a, c) == [backups EXCEPT ![backup_dir[1]][a] = c]

\* What the other steps of backup and restore leave alone.
backup_frame == <<vm, containers, root_token, clock, profiles_config, cluster, invocation,
                  confirmed, services_to_stop, merged_env,
                  redis_password, create_error, returncode>>

\* A backup that creates its directory without looking at the VM.
backup_begin_without_vm_check ==
    /\ pc = "backup"
    /\ issued' = Append(issued, "colima status")
    /\ \E now \in clock..MaxClock :
          /\ clock' = now
          /\ backup_dir' = <<now>>
          /\ backups' = IF backups[now] = NoDir
                        THEN [backups EXCEPT ![now] = EmptyDir]
                        ELSE backups
    /\ Continue("backup_postgres", {"Creating backup in"})
    /\ UNCHANGED <<vm, containers, volumes, env_file, root_token, profiles_config, cluster,
                   invocation, confirmed, mysql_pass, progress, services_to_stop, merged_env,
                   redis_password, create_error, returncode>>

\* The prerequisite check, then backup_dir.mkdir(parents=True, exist_ok=True)
\* under the name datetime.now() gives at second granularity.
backup_begin ==
    /\ pc = "backup"
    /\ issued' = Append(issued, "colima status")
    /\ LET r == check_colima_status IN
       IF r.kind # "return"
       THEN /\ Die(r)
            /\ UNCHANGED <<clock, backup_dir, backups>>
       ELSE IF ~r.running
       THEN /\ Terminate(0, {"Error: Colima is not running"})
            /\ UNCHANGED <<clock, backup_dir, backups>>
       ELSE /\ \E now \in clock..MaxClock :
                 /\ clock' = now
                 /\ backup_dir' = <<now>>
                 /\ backups' = IF backups[now] = NoDir
                               THEN [backups EXCEPT ![now] = EmptyDir]
                               ELSE backups
            /\ Continue("backup_postgres", {"Creating backup in"})
    /\ UNCHANGED <<vm, containers, volumes, env_file, root_token, profiles_config, cluster,
                   invocation, confirmed, mysql_pass, progress, services_to_stop, merged_env,
                   redis_password, create_error, returncode>>

\* A dump whose output file is written whatever the exit status: a failed
\* dump leaves an empty file.
backup_postgres_writing_always ==
    /\ pc = "backup_postgres"
    /\ issued' = Append(issued, "pg_dumpall")
    /\ \E rc \in ReturnCodes :
          LET r == run_command(docker, FALSE, rc) IN
          IF r.kind # "return"
          THEN /\ Die(r)
               /\ UNCHANGED <<backups, progress>>
          ELSE /\ Continue("backup_mysql_password", {})
               /\ IF r.code = 0
                  THEN /\ backups' = WriteFile(ArtifactOf["postgres"], volumes["postgres"])
                       /\ progress' = [progress EXCEPT !["postgres"] = "backed up"]
                  ELSE /\ backups' = WriteFile(ArtifactOf["postgres"], "empty")
                       /\ progress' = [progress EXCEPT !["postgres"] = "failed"]
    /\ UNCHANGED <<backup_frame, volumes, env_file, backup_dir, mysql_pass>>

\* pg_dumpall through run_command(check=False, capture=True).
backup_postgres ==
    /\ pc = "backup_postgres"
    /\ issued' = Append(issued, "pg_dumpall")
    /\ \E rc \in ReturnCodes :
          LET r == run_command(docker, FALSE, rc) IN
          IF r.kind # "return"
          THEN /\ Die(r)
               /\ UNCHANGED <<backups, progress>>
          ELSE /\ Continue("backup_mysql_password", {})
               /\ IF r.code = 0
                  THEN /\ backups' = WriteFile(ArtifactOf["postgres"], volumes["postgres"])
                       /\ progress' = [progress EXCEPT !["postgres"] = "backed up"]
                  ELSE /\ progress' = [progress EXCEPT !["postgres"] = "failed"]
                       /\ UNCHANGED backups
    /\ UNCHANGED <<backup_frame, volumes, env_file, backup_dir, mysql_pass>>

\* The MySQL password: from Vault when the root token can be read, stripped
\* when the lookup returned 0, "" otherwise; without one the step is skipped.
backup_mysql_password ==
    /\ pc = "backup_mysql_password"
    /\ IF get_vault_token # ""
       THEN /\ issued' = Append(issued, "vault kv get secret/mysql")
            /\ \E rc \in ReturnCodes, stdout \in {"", "pw"} :
                  LET r == run_command(docker, FALSE, rc)
                      pass == IF r.code = 0 THEN stdout ELSE ""
                  IN  IF r.kind # "return"
                      THEN /\ Die(r)
                           /\ UNCHANGED <<mysql_pass, progress>>
                      ELSE /\ mysql_pass' = pass
                           /\ IF pass # ""
                              THEN /\ Continue("backup_mysql", {})
                                   /\ UNCHANGED progress
                              ELSE /\ Continue("backup_mongodb", {})
                                   /\ progress' = [progress EXCEPT !["mysql"] = "skipped"]
       ELSE /\ mysql_pass' = ""
            /\ progress' = [progress EXCEPT !["mysql"] = "skipped"]
            /\ Continue("backup_mongodb", {})
            /\ UNCHANGED issued
    /\ UNCHANGED <<backup_frame, volumes, env_file, backups, backup_dir>>

\* A dump that leaves the password it was run with in the backup directory.
backup_mysql_saving_password ==
    /\ pc = "backup_mysql"
    /\ issued' = Append(issued, "mysqldump")
    /\ \E rc \in ReturnCodes :
          LET r == run_command(docker, FALSE, rc) IN
          IF r.kind # "return"
          THEN /\ Die(r)
               /\ UNCHANGED <<backups, progress>>
          ELSE /\ Continue("backup_mongodb", {})
               /\ IF r.code = 0
                  THEN /\ backups' = [backups EXCEPT
                                         ![backup_dir[1]][ArtifactOf["mysql"]] = mysql_pass]
                       /\ progress' = [progress EXCEPT !["mysql"] = "backed up"]
                  ELSE /\ progress' = [progress EXCEPT !["mysql"] = "failed"]
                       /\ UNCHANGED backups
    /\ UNCHANGED <<backup_frame, volumes, env_file, backup_dir, mysql_pass>>

\* mysqldump through run_command(check=False, capture=True).
backup_mysql ==
    /\ pc = "backup_mysql"
    /\ issued' = Append(issued, "mysqldump")
    /\ \E rc \in ReturnCodes :
          LET r == run_command(docker, FALSE, rc) IN
          IF r.kind # "return"
          THEN /\ Die(r)
               /\ UNCHANGED <<backups, progress>>
          ELSE /\ Continue("backup_mongodb", {})
               /\ IF r.code = 0
                  THEN /\ backups' = WriteFile(ArtifactOf["mysql"], volumes["mysql"])
                       /\ progress' = [progress EXCEPT !["mysql"] = "backed up"]
                  ELSE /\ progress' = [progress EXCEPT !["mysql"] = "failed"]
                       /\ UNCHANGED backups
    /\ UNCHANGED <<backup_frame, volumes, env_file, backup_dir, mysql_pass>>

\* A step that calls subprocess.run itself inside try / except Exception.
backup_direct(service, label, next) ==
    /\ issued' = Append(issued, label)
    /\ \E rc \in ReturnCodes :
          LET r == subprocess_run(docker, rc) IN
          /\ Continue(next, {})
          /\ IF r.kind = "return" /\ r.code = 0
             THEN /\ backups' = WriteFile(ArtifactOf[service], volumes[service])
                  /\ progress' = [progress EXCEPT ![service] = "backed up"]
             ELSE /\ progress' = [progress EXCEPT ![service] =
                                     IF r.kind = "return" THEN "failed" ELSE "error"]
                  /\ UNCHANGED backups
    /\ UNCHANGED <<backup_frame, volumes, env_file, backup_dir, mysql_pass>>

backup_mongodb ==
    /\ pc = "backup_mongodb"
    /\ backup_direct("mongodb", "mongodump", "backup_forgejo")

backup_forgejo ==
    /\ pc = "backup_forgejo"
    /\ backup_direct("forgejo", "forgejo tar", "backup_env")

\* A snapshot taken only when some dump succeeded.
backup_env_after_success ==
    /\ pc = "backup_env"
    /\ IF env_file # "absent" /\ \E s \in DataServices : progress[s] = "backed up"
       THEN /\ backups' = WriteFile(EnvBackup, env_file)
            /\ progress' = [progress EXCEPT !["env"] = "backed up"]
       ELSE UNCHANGED <<backups, progress>>
    /\ Terminate(0, {"Backup completed"})
    /\ UNCHANGED <<backup_frame, volumes, env_file, backup_dir, mysql_pass, issued>>

\* shutil.copy of ENV_FILE when it exists, then the size report.
backup_env ==
    /\ pc = "backup_env"
    /\ IF env_file # "absent"
       THEN /\ backups' = WriteFile(EnvBackup, env_file)
            /\ progress' = [progress EXCEPT !["env"] = "backed up"]
       ELSE UNCHANGED <<backups, progress>>
    /\ Terminate(0, {"Backup completed"})
    /\ UNCHANGED <<backup_frame, volumes, env_file, backup_dir, mysql_pass, issued>>

backup ==
    \/ backup_begin
    \/ backup_postgres
    \/ backup_mysql_password
    \/ backup_mysql
    \/ backup_mongodb
    \/ backup_forgejo
    \/ backup_env

\* ------------------------------------------------------------------ restore
\* A file of the directory being restored from ("absent" when it is not there).
BackupFile(a) == backups[backup_dir[1]][a]

\* What the steps of restore after the confirmation leave alone.
restore_frame == <<vm, containers, backups, root_token, clock, profiles_config, cluster,
                   invocation,
                   confirmed, backup_dir, services_to_stop, merged_env,
                   redis_password, create_error, returncode>>

\* The names a directory of backups/ that backup did not make can have: one
\* that sorts below every timestamp and one that sorts above (such as
\* "manual").  A name stands for its place in the order of the strings.
OtherDirNames == {-1, MaxClock + 1}

\* The directories of backups/.
BackupDirs == {n \in BackupNames : backups[n] # NoDir} \cup other_dirs

\* sorted(..., reverse=True)
RECURSIVE sorted_reverse(_)
sorted_reverse(S) ==
    IF S = {} THEN <<>>
    ELSE LET last == CHOOSE m \in S : \A n \in S : n <= m
         IN  <<last>> \o sorted_reverse(S \ {last})

\* sorted(...)
RECURSIVE sorted(_)
sorted(S) ==
    IF S = {} THEN <<>>
    ELSE LET first == CHOOSE m \in S : \A n \in S : m <= n
         IN  <<first>> \o sorted(S \ {first})

\* datetime.strptime(name, "%Y%m%d_%H%M%S") formatted again, or the name
\* itself when it does not parse.
formatted_date(name) ==
    IF name \in BackupNames THEN [shown |-> "date", of |-> name]
    ELSE [shown |-> "name", of |-> name]

\* table.add_row(backup.name, formatted_date, size) for each directory in
\* turn; the size column is left out.
table_rows(dirs) ==
    [i \in 1..Len(dirs) |-> [name |-> dirs[i], date |-> formatted_date(dirs[i])]]

\* What restore_begin leaves alone.
restore_begin_frame == <<world, runs, command, profile, backup_name, follow, last_start,
                         issued, confirmed, mysql_pass, progress, services_to_stop,
                         merged_env, redis_password, create_error, returncode>>

\* A restore that does not look whether the named directory exists.
restore_begin_without_exists_check ==
    /\ pc = "restore"
    /\ IF backup_name = <<>>
       THEN /\ IF BackupDirs = {}
               THEN /\ Terminate(0, {"No backups found"})
                    /\ UNCHANGED table
               ELSE /\ Terminate(0, {"Available backups"})
                    /\ table' = table_rows(sorted_reverse(BackupDirs))
            /\ UNCHANGED backup_dir
       ELSE /\ backup_dir' = backup_name
            /\ UNCHANGED table
            /\ Continue("restore_check_vm", {})
    /\ UNCHANGED restore_begin_frame

\* A listing in the order sorted() gives without reverse=True.
restore_begin_listing_oldest_first ==
    /\ pc = "restore"
    /\ IF backup_name = <<>>
       THEN /\ IF BackupDirs = {}
               THEN /\ Terminate(0, {"No backups found"})
                    /\ UNCHANGED table
               ELSE /\ Terminate(0, {"Available backups"})
                    /\ table' = table_rows(sorted(BackupDirs))
            /\ UNCHANGED backup_dir
       ELSE /\ backup_dir' = backup_name
            /\ UNCHANGED table
            /\ IF backups[backup_name[1]] = NoDir
               THEN Terminate(0, {"Error: Backup not found"})
               ELSE Continue("restore_check_vm", {})
    /\ UNCHANGED restore_begin_frame

\* Without a name the backups are listed, newest name first; with one, the
\* directory must exist.
restore_begin ==
    /\ pc = "restore"
    /\ IF backup_name = <<>>
       THEN /\ IF BackupDirs = {}
               THEN /\ Terminate(0, {"No backups found"})
                    /\ UNCHANGED table
               ELSE /\ Terminate(0, {"Available backups"})
                    /\ table' = table_rows(sorted_reverse(BackupDirs))
            /\ UNCHANGED backup_dir
       ELSE /\ backup_dir' = backup_name
            /\ UNCHANGED table
            /\ IF backups[backup_name[1]] = NoDir
               THEN Terminate(0, {"Error: Backup not found"})
               ELSE Continue("restore_check_vm", {})
    /\ UNCHANGED restore_begin_frame

\* The services must be running.
restore_check_vm ==
    /\ pc = "restore_check_vm"
    /\ issued' = Append(issued, "colima status")
    /\ LET r == check_colima_status IN
       IF r.kind # "return" THEN Die(r)
       ELSE IF ~r.running THEN Terminate(0, {"Error: Colima is not running"})
       ELSE Continue("restore_confirm", {"WARNING: This will OVERWRITE current data"})
    /\ UNCHANGED <<world, invocation, confirmed, backup_dir, mysql_pass, progress,
                   services_to_stop, merged_env, redis_password, create_error, returncode>>

\* A restore that goes on when the answer is "n".
restore_confirm_ignoring_answer ==
    /\ pc = "restore_confirm"
    /\ \E answer \in {"y", "n"} :
          /\ confirmed' = IF answer = "y" THEN "yes" ELSE "no"
          /\ Continue("restore_postgres", {"Restoring from"})
    /\ UNCHANGED <<world, invocation, issued, backup_dir, mysql_pass, progress,
                   services_to_stop, merged_env, redis_password, create_error, returncode>>

\* click.confirm(..., default=False): "y", anything else, or an interrupted
\* prompt, which click turns into Abort.
restore_confirm ==
    /\ pc = "restore_confirm"
    /\ \E answer \in {"y", "n", "abort"} :
          CASE answer = "y" ->
                 /\ confirmed' = "yes"
                 /\ Continue("restore_postgres", {"Restoring from"})
            [] answer = "n" ->
                 /\ confirmed' = "no"
                 /\ Terminate(0, {"Restore cancelled."})
            [] OTHER ->
                 /\ confirmed' = "no"
                 /\ Terminate(1, {"Aborted!"})
    /\ UNCHANGED <<world, invocation, issued, backup_dir, mysql_pass, progress,
                   services_to_stop, merged_env, redis_password, create_error, returncode>>

\* A restore step that feeds the artifact to run_command(check=False) inside
\* try / except Exception: the except clause catches an exception run_command
\* lets through, and not the SystemExit of its sys.exit.
restore_through_run_command(service, label, next) ==
    /\ issued' = Append(issued, label)
    /\ \E rc \in ReturnCodes :
          LET r == run_command(docker, FALSE, rc) IN
          IF r.kind = "exit"
          THEN /\ Die(r)
               /\ UNCHANGED <<volumes, progress>>
          ELSE /\ Continue(next, {})
               /\ IF r.kind = "return" /\ r.code = 0
                  THEN /\ volumes' = [volumes EXCEPT ![service] = BackupFile(ArtifactOf[service])]
                       /\ progress' = [progress EXCEPT ![service] = "restored"]
                  ELSE /\ progress' = [progress EXCEPT ![service] =
                                          IF r.kind = "return" THEN "failed" ELSE "error"]
                       /\ UNCHANGED volumes
    /\ UNCHANGED <<restore_frame, env_file, mysql_pass>>

\* A step whose artifact is not in the backup directory is passed over.
restore_pass(next) ==
    /\ Continue(next, {})
    /\ UNCHANGED <<restore_frame, volumes, env_file, mysql_pass, progress, issued>>

\* A PostgreSQL step that does not look whether the artifact exists.
restore_postgres_unconditional ==
    /\ pc = "restore_postgres"
    /\ restore_through_run_command("postgres", "psql", "restore_mysql_password")

restore_postgres ==
    /\ pc = "restore_postgres"
    /\ IF BackupFile(ArtifactOf["postgres"]) # "absent"
       THEN restore_through_run_command("postgres", "psql", "restore_mysql_password")
       ELSE restore_pass("restore_mysql_password")

\* The MySQL password, looked up as in backup, outside any try block.
restore_mysql_password ==
    /\ pc = "restore_mysql_password"
    /\ IF BackupFile(ArtifactOf["mysql"]) = "absent"
       THEN restore_pass("restore_mongodb")
       ELSE /\ IF get_vault_token # ""
               THEN /\ issued' = Append(issued, "vault kv get secret/mysql")
                    /\ \E rc \in ReturnCodes, stdout \in {"", "pw"} :
                          LET r == run_command(docker, FALSE, rc)
                              pass == IF r.code = 0 THEN stdout ELSE ""
                          IN  IF r.kind # "return"
                              THEN /\ Die(r)
                                   /\ UNCHANGED <<mysql_pass, progress>>
                              ELSE /\ mysql_pass' = pass
                                   /\ IF pass # ""
                                      THEN /\ Continue("restore_mysql", {})
                                           /\ UNCHANGED progress
                                      ELSE /\ Continue("restore_mongodb", {})
                                           /\ progress' = [progress EXCEPT !["mysql"] = "skipped"]
               ELSE /\ mysql_pass' = ""
                    /\ progress' = [progress EXCEPT !["mysql"] = "skipped"]
                    /\ Continue("restore_mongodb", {})
                    /\ UNCHANGED issued
            /\ UNCHANGED <<restore_frame, volumes, env_file>>

restore_mysql ==
    /\ pc = "restore_mysql"
    /\ restore_through_run_command("mysql", "mysql", "restore_mongodb")

\* A restore step that calls subprocess.run itself inside try / except Exception.
restore_direct(service, label, next) ==
    /\ issued' = Append(issued, label)
    /\ \E rc \in ReturnCodes :
          LET r == subprocess_run(docker, rc) IN
          /\ Continue(next, {})
          /\ IF r.kind = "return" /\ r.code = 0
             THEN /\ volumes' = [volumes EXCEPT ![service] = BackupFile(ArtifactOf[service])]
                  /\ progress' = [progress EXCEPT ![service] = "restored"]
             ELSE /\ progress' = [progress EXCEPT ![service] =
                                     IF r.kind = "return" THEN "failed" ELSE "error"]
                  /\ UNCHANGED volumes
    /\ UNCHANGED <<restore_frame, env_file, mysql_pass>>

\* A MongoDB step after which the configuration file is restored at once.
restore_mongodb_then_env ==
    /\ pc = "restore_mongodb"
    /\ IF BackupFile(ArtifactOf["mongodb"]) # "absent"
       THEN restore_direct("mongodb", "mongorestore", "restore_env")
       ELSE restore_pass("restore_env")

restore_mongodb ==
    /\ pc = "restore_mongodb"
    /\ IF BackupFile(ArtifactOf["mongodb"]) # "absent"
       THEN restore_direct("mongodb", "mongorestore", "restore_forgejo")
       ELSE restore_pass("restore_forgejo")

restore_forgejo ==
    /\ pc = "restore_forgejo"
    /\ IF BackupFile(ArtifactOf["forgejo"]) # "absent"
       THEN restore_direct("forgejo", "forgejo untar", "restore_env")
       ELSE restore_pass("restore_env")

\* shutil.copy(env_backup, ENV_FILE) when the snapshot exists.
restore_env ==
    /\ pc = "restore_env"
    /\ IF BackupFile(EnvBackup) # "absent"
       THEN /\ env_file' = BackupFile(EnvBackup)
            /\ progress' = [progress EXCEPT !["env"] = "restored"]
       ELSE UNCHANGED <<env_file, progress>>
    /\ Terminate(0, {"Restore completed"})
    /\ UNCHANGED <<restore_frame, volumes, mysql_pass, issued>>

restore ==
    \/ restore_begin
    \/ restore_check_vm
    \/ restore_confirm
    \/ restore_postgres
    \/ restore_mysql_password
    \/ restore_mysql
    \/ restore_mongodb
    \/ restore_forgejo
    \/ restore_env

\* ------------------------------------------------------------------ VaultClient
\* str.strip("/"): the leading and the trailing slashes are removed.
RECURSIVE lstrip(_)
lstrip(path) ==
    IF path # <<>> /\ Head(path) = "/" THEN lstrip(Tail(path)) ELSE path

RECURSIVE rstrip(_)
rstrip(path) ==
    IF path # <<>> /\ path[Len(path)] = "/"
    THEN rstrip(SubSeq(path, 1, Len(path) - 1)) ELSE path

strip(path) == rstrip(lstrip(path))

\* re.match(r'^[a-zA-Z0-9/_-]+$', path): one or more allowed characters from
\* the start, up to where $ matches, which is the end of the string or the
\* place just before a newline that ends the string.
re_match(path) ==
    \E n \in 1..Len(path) :
        /\ \A i \in 1..n : path[i] \in AllowedChars
        /\ \/ n = Len(path)
           \/ (n = Len(path) - 1 /\ path[Len(path)] = "\n")

\* ".." in path
contains_traversal(path) ==
    \E i \in 1..(Len(path) - 1) : path[i] = "." /\ path[i + 1] = "."

\* _validate_secret_path: the stripped path, or ValueError.
validate_secret_path(path) ==
    LET stripped == strip(path) IN
    IF ~re_match(stripped) THEN [ok |-> FALSE, path |-> stripped]
    ELSE IF contains_traversal(stripped) THEN [ok |-> FALSE, path |-> stripped]
    ELSE [ok |-> TRUE, path |-> stripped]

\* What the store may answer to a read: a response with a status and, for
\* 200, a body that holds the secret's fields or is not the expected JSON;
\* or no response: a timeout, a connection failure, another httpx error, or
\* any other exception.
SecretResponses ==
    {[kind |-> "response", status |-> 200, data |-> d, json |-> j] :
        d \in SecretMaps, j \in BOOLEAN}
    \cup {[kind |-> "response", status |-> st, data |-> NoFields, json |-> TRUE] :
            st \in {403, 404, 500}}
    \cup {[kind |-> k, status |-> 0, data |-> NoFields, json |-> FALSE] :
            k \in {"timeout", "connect error", "http error", "exception"}}

\* What the health endpoint may answer.
HealthResponses ==
    {[kind |-> "response", status |-> st, data |-> NoFields, json |-> TRUE] :
        st \in {200, 429, 500, 501, 503}}
    \cup {[kind |-> k, status |-> 0, data |-> NoFields, json |-> FALSE] :
            k \in {"timeout", "connect error", "http error", "exception"}}

\* The variables of the CLI, which no call of the client touches.
cli_state == <<vm, containers, volumes, env_file, backups, root_token, clock, profiles_config,
               docker, colima, profile_envs, cluster, other_dirs, runs, command, profile,
               backup_name, follow, table, pc, issued, console, exit_code, confirmed,
               backup_dir, mysql_pass, progress,
               services_to_stop, merged_env, redis_password, create_error, returncode,
               last_start>>

\* A get_secret that builds the URL from the path as given.
get_secret_begin_unvalidated ==
    /\ vault_pc = "idle"
    /\ \E path \in Paths, key \in Keys :
          /\ vault_call' = [op |-> "get_secret", path |-> path, key |-> key]
          /\ vault_requests' = Append(vault_requests,
                                      [endpoint |-> "v1/secret/data/", path |-> path])
          /\ vault_pc' = "get_secret_response"
          /\ UNCHANGED vault_result
    /\ UNCHANGED <<cli_state, vault_response>>

\* get_secret up to the request: the path is validated, then the URL is
\* built from the validated path and the GET is sent.
get_secret_begin ==
    /\ vault_pc = "idle"
    /\ \E path \in Paths, key \in Keys :
          LET validated == validate_secret_path(path) IN
          /\ vault_call' = [op |-> "get_secret", path |-> path, key |-> key]
          /\ IF ~validated.ok
             THEN /\ vault_result' = Raised("ValueError", "path", "")
                  /\ vault_pc' = "returned"
                  /\ UNCHANGED vault_requests
             ELSE /\ vault_requests' =
                        Append(vault_requests,
                               [endpoint |-> "v1/secret/data/", path |-> validated.path])
                  /\ vault_pc' = "get_secret_response"
                  /\ UNCHANGED vault_result
    /\ UNCHANGED <<cli_state, vault_response>>

\* A classification with an error of its own for "forbidden".
get_secret_outcome_with_permission_error(call, resp) ==
    IF resp.kind = "timeout" THEN Raised("VaultUnavailableError", "", "timeout")
    ELSE IF resp.kind = "connect error" THEN Raised("VaultUnavailableError", "", "connect error")
    ELSE IF resp.kind = "http error" THEN Raised("VaultUnavailableError", "", "http error")
    ELSE IF resp.kind = "exception" THEN Raised("VaultUnavailableError", "", "exception")
    ELSE IF resp.status = 404 THEN Raised("ResourceNotFoundError", "secret", "")
    ELSE IF resp.status = 403 THEN Raised("PermissionDeniedError", "secret", "")
    ELSE IF resp.status >= 400 THEN Raised("VaultUnavailableError", "", "http error")
    ELSE IF ~resp.json THEN Raised("VaultUnavailableError", "", "exception")
    ELSE IF call.key # NoKey
    THEN IF call.key \notin DOMAIN resp.data
         THEN Raised("ResourceNotFoundError", "secret_key", "")
         ELSE Returned([k \in {call.key} |-> resp.data[k]], NoReport)
    ELSE Returned(resp.data, NoReport)

\* A read with no catch-all clause: what is neither an httpx error nor one
\* of the two errors of the client escapes as it is.
get_secret_outcome_without_catch_all(call, resp) ==
    IF resp.kind = "timeout" THEN Raised("VaultUnavailableError", "", "timeout")
    ELSE IF resp.kind = "connect error" THEN Raised("VaultUnavailableError", "", "connect error")
    ELSE IF resp.kind = "http error" THEN Raised("VaultUnavailableError", "", "http error")
    ELSE IF resp.kind = "exception" THEN Raised("Exception", "", "exception")
    ELSE IF resp.status = 404 THEN Raised("ResourceNotFoundError", "secret", "")
    ELSE IF resp.status = 403 THEN Raised("VaultUnavailableError", "", "permission denied")
    ELSE IF resp.status >= 400 THEN Raised("VaultUnavailableError", "", "http error")
    ELSE IF ~resp.json THEN Raised("JSONDecodeError", "", "exception")
    ELSE IF call.key # NoKey
    THEN IF call.key \notin DOMAIN resp.data
         THEN Raised("ResourceNotFoundError", "secret_key", "")
         ELSE Returned([k \in {call.key} |-> resp.data[k]], NoReport)
    ELSE Returned(resp.data, NoReport)

\* A read that returns every field whatever key was asked for.
get_secret_outcome_ignoring_key(call, resp) ==
    IF resp.kind = "timeout" THEN Raised("VaultUnavailableError", "", "timeout")
    ELSE IF resp.kind = "connect error" THEN Raised("VaultUnavailableError", "", "connect error")
    ELSE IF resp.kind = "http error" THEN Raised("VaultUnavailableError", "", "http error")
    ELSE IF resp.kind = "exception" THEN Raised("VaultUnavailableError", "", "exception")
    ELSE IF resp.status = 404 THEN Raised("ResourceNotFoundError", "secret", "")
    ELSE IF resp.status = 403 THEN Raised("VaultUnavailableError", "", "permission denied")
    ELSE IF resp.status >= 400 THEN Raised("VaultUnavailableError", "", "http error")
    ELSE IF ~resp.json THEN Raised("VaultUnavailableError", "", "exception")
    ELSE Returned(resp.data, NoReport)

\* get_secret from the response on: the status codes, the body, and the
\* except clauses.
get_secret_outcome(call, resp) ==
    IF resp.kind = "timeout" THEN Raised("VaultUnavailableError", "", "timeout")
    ELSE IF resp.kind = "connect error" THEN Raised("VaultUnavailableError", "", "connect error")
    ELSE IF resp.kind = "http error" THEN Raised("VaultUnavailableError", "", "http error")
    ELSE IF resp.kind = "exception" THEN Raised("VaultUnavailableError", "", "exception")
    ELSE IF resp.status = 404 THEN Raised("ResourceNotFoundError", "secret", "")
    ELSE IF resp.status = 403 THEN Raised("VaultUnavailableError", "", "permission denied")
    ELSE IF resp.status >= 400 THEN Raised("VaultUnavailableError", "", "http error")
    ELSE IF ~resp.json THEN Raised("VaultUnavailableError", "", "exception")
    ELSE IF call.key # NoKey
    THEN IF call.key \notin DOMAIN resp.data
         THEN Raised("ResourceNotFoundError", "secret_key", "")
         ELSE Returned([k \in {call.key} |-> resp.data[k]], NoReport)
    ELSE Returned(resp.data, NoReport)

\* The store answers, or fails to.
get_secret_response ==
    /\ vault_pc = "get_secret_response"
    /\ \E resp \in SecretResponses :
          /\ vault_response' = resp
          /\ vault_result' = get_secret_outcome(vault_call, resp)
    /\ vault_pc' = "returned"
    /\ UNCHANGED <<cli_state, vault_call, vault_requests>>

\* check_health up to the request.
check_health_begin ==
    /\ vault_pc = "idle"
    /\ vault_call' = [op |-> "check_health", path |-> <<>>, key |-> NoKey]
    /\ vault_requests' = Append(vault_requests,
                                [endpoint |-> "v1/sys/health?standbyok=true", path |-> <<>>])
    /\ vault_pc' = "check_health_response"
    /\ UNCHANGED <<cli_state, vault_response, vault_result>>

\* A probe that lets a timeout through.
check_health_outcome_raising(resp) ==
    IF resp.kind = "response"
    THEN Returned(NoFields,
                  [status |-> IF resp.status = 200 THEN "healthy" ELSE "unhealthy",
                   initialized |-> resp.status # 501,
                   sealed |-> resp.status = 503,
                   standby |-> resp.status = 429,
                   error |-> ""])
    ELSE IF resp.kind = "timeout" THEN Raised("TimeoutException", "", "timeout")
    ELSE Returned(NoFields, [NoReport EXCEPT !.status = "unhealthy",
                                              !.error = "Health check failed"])

\* check_health from the response on: the report for a status code, and the
\* report of the except clause.
check_health_outcome(resp) ==
    IF resp.kind = "response"
    THEN Returned(NoFields,
                  [status |-> IF resp.status = 200 THEN "healthy" ELSE "unhealthy",
                   initialized |-> resp.status # 501,
                   sealed |-> resp.status = 503,
                   standby |-> resp.status = 429,
                   error |-> ""])
    ELSE Returned(NoFields, [NoReport EXCEPT !.status = "unhealthy",
                                              !.error = "Health check failed"])

check_health_response ==
    /\ vault_pc = "check_health_response"
    /\ \E resp \in HealthResponses :
          /\ vault_response' = resp
          /\ vault_result' = check_health_outcome(resp)
    /\ vault_pc' = "returned"
    /\ UNCHANGED <<cli_state, vault_call, vault_requests>>

\* The call is over; the client keeps nothing of it.
vault_return ==
    /\ vault_pc = "returned"
    /\ vault_pc' = "idle"
    /\ vault_call' = NoCall
    /\ vault_requests' = <<>>
    /\ vault_response' = NoResponse
    /\ vault_result' = NoResult
    /\ UNCHANGED cli_state

VaultClient ==
    \/ get_secret_begin
    \/ get_secret_response
    \/ check_health_begin
    \/ check_health_response
    \/ vault_return

\* ------------------------------------------------------------------ specification
Commands ==
    {"start", "stop", "restart", "health", "logs", "reset", "backup", "restore",
     "redis-cluster-init"}

\* The steps of every handler.
Handlers ==
    \/ start
    \/ stop
    \/ restart
    \/ health
    \/ logs
    \/ reset
    \/ backup
    \/ restore
    \/ redis_cluster_init

\* The whole CLI.
Next == cli(Commands) \/ cli_exit \/ Handlers

Spec == Init /\ [][Next]_vars

\* The destructive and data commands alone: reset, backup and restore.
DataCommands == {"reset", "backup", "restore"}

NextData == cli(DataCommands) \/ cli_exit \/ reset \/ backup \/ restore

SpecData == Init /\ [][NextData]_vars

\* Stop alone, over a family of catalogs: every pair of service lists of at
\* most MaxServices services, one standard and one custom profile, and the
\* catalog of the specification's example.
ResolveServices == {"a", "b", "c"}

ExampleCatalog ==
    [profiles |-> [standard |-> <<"a", "b", "c">>, reference |-> <<"c", "d">>],
     custom_profiles |-> <<>>]

ResolveCatalogs ==
    {[profiles |-> [standard |-> l1], custom_profiles |-> [custom |-> l2]] :
        l1 \in SeqsUpTo(ResolveServices, MaxServices),
        l2 \in SeqsUpTo(ResolveServices, MaxServices)}
    \cup {ExampleCatalog}

InitResolve ==
    /\ profiles_config \in ResolveCatalogs
    /\ docker = "ok"
    /\ colima = "ok"
    /\ vm = "Running"
    /\ containers = ServicesOf(profiles_config)
    /\ volumes = [s \in DataServices |-> "live"]
    /\ env_file = "live"
    /\ backups = [n \in BackupNames |-> IF n = 0 THEN OldBackup ELSE NoDir]
    /\ root_token = "tok"
    /\ clock = 1
    /\ profile_envs = NoEnvFiles
    /\ cluster = "none"
    /\ other_dirs = {}
    /\ InitProc

NextResolve == cli({"stop"}) \/ cli_exit \/ stop

SpecResolve == InitResolve /\ [][NextResolve]_vars

\* Start and stop alone, over the default catalog, with every way the two
\* executables can resolve.
InitLifecycle ==
    /\ InitWorld({DefaultCatalog}, ToolStates)
    /\ env_file = "live"
    /\ root_token = "tok"
    /\ InitProc

NextLifecycle == cli({"start", "stop"}) \/ cli_exit \/ start \/ stop

SpecLifecycle == InitLifecycle /\ [][NextLifecycle]_vars

\* Start alone, over a family of override files: each of two profiles has no
\* file, or a file that sets any of the variables to any of the values.
EnvProfiles == {"minimal", "standard"}

EnvFileSets == UNION {[S -> EnvMaps] : S \in SUBSET EnvProfiles}

InitEnv ==
    /\ profiles_config = DefaultCatalog
    /\ docker = "ok"
    /\ colima = "ok"
    /\ vm \in {"Running", "Stopped"}
    /\ containers = {}
    /\ volumes = [s \in DataServices |-> "live"]
    /\ env_file = "live"
    /\ backups = [n \in BackupNames |-> IF n = 0 THEN OldBackup ELSE NoDir]
    /\ root_token = "tok"
    /\ clock = 1
    /\ profile_envs \in EnvFileSets
    /\ cluster = "none"
    /\ other_dirs = {}
    /\ InitProc

NextEnv == cli({"start"}) \/ cli_exit \/ start

SpecEnv == InitEnv /\ [][NextEnv]_vars

\* The cluster bootstrap alone, in both scripts, over a catalog with the
\* three cache nodes: any of the services may be running, the cluster may
\* exist, and the root token file may be missing.
ClusterCatalog ==
    [profiles |-> [standard |-> <<"vault", "redis-1", "redis-2", "redis-3">>],
     custom_profiles |-> <<>>]

ClusterCommands == {"redis-cluster-init", "legacy redis-cluster-init"}

InitCluster ==
    /\ profiles_config = ClusterCatalog
    /\ docker \in ToolStates
    /\ colima = "ok"
    /\ vm = "Running"
    /\ containers \in SUBSET ServicesOf(ClusterCatalog)
    /\ volumes = [s \in DataServices |-> "live"]
    /\ env_file = "live"
    /\ backups = [n \in BackupNames |-> IF n = 0 THEN OldBackup ELSE NoDir]
    /\ root_token \in {"absent", "tok"}
    /\ clock = 1
    /\ profile_envs = NoEnvFiles
    /\ cluster \in {"none", "created"}
    /\ other_dirs = {}
    /\ InitProc

NextCluster ==
    \/ cli(ClusterCommands)
    \/ cli_exit
    \/ redis_cluster_init
    \/ legacy_redis_cluster_init

SpecCluster == InitCluster /\ [][NextCluster]_vars

\* The VaultClient alone, called with every path of at most MaxPathLen
\* characters and every key, against every answer of the store.
InitVaultClient ==
    /\ InitWorld({DefaultCatalog}, {"ok"})
    /\ vm = "Running"
    /\ env_file = "live"
    /\ root_token = "tok"
    /\ InitProc

SpecVault == InitVaultClient /\ [][VaultClient]_vars

\* The commands that act on the running services and leave the VM alone.
ServiceCommands == {"restart", "logs"}

NextService == cli(ServiceCommands) \/ cli_exit \/ restart \/ logs

SpecService == Init /\ [][NextService]_vars

\* Restore alone, over every content of backups/: each timestamp may name a
\* backup set and each other name a directory.
InitBackupsDir ==
    /\ profiles_config = DefaultCatalog
    /\ docker = "ok"
    /\ colima = "ok"
    /\ vm \in {"Running", "Stopped"}
    /\ containers = IF vm = "Running" THEN ServicesOf(profiles_config) ELSE {}
    /\ volumes = [s \in DataServices |-> "live"]
    /\ env_file = "live"
    /\ backups \in [BackupNames -> {OldBackup, NoDir}]
    /\ root_token = "tok"
    /\ clock = 1
    /\ profile_envs = DefaultEnvFiles
    /\ cluster = "none"
    /\ other_dirs \in SUBSET OtherDirNames
    /\ InitProc

NextListing == cli({"restore"}) \/ cli_exit \/ restore

SpecListing == InitBackupsDir /\ [][NextListing]_vars

\* The commands that look a password up in the store, with both executables
\* found.
SecretCommands == {"backup", "restore", "redis-cluster-init"}

InitSecrets == InitWorld({DefaultCatalog}, {"ok"}) /\ InitProc

NextSecrets == cli(SecretCommands) \/ cli_exit \/ backup \/ restore \/ redis_cluster_init

SpecSecrets == InitSecrets /\ [][NextSecrets]_vars

\* ------------------------------------------------------------------ claims
\* The external commands that destroy data: the teardown with volumes and the
\* deletion of the VM.
DestructiveCommands == {"docker compose down -v", "colima delete"}

\* The commands that overwrite a service's data from a backup.
RestoreCommands == {"psql", "mysql", "mongorestore", "forgejo untar"}

\* C1: reset issues no destructive external command (neither the teardown
\* with volumes nor the VM deletion) unless the caller has confirmed; up to
\* and including a declined confirmation, containers, volumes and the VM stay
\* exactly as they were.
C1_ResetNeedsConfirmation ==
    [][(command' = "reset" /\ confirmed' # "yes") =>
          /\ Range(issued') \cap DestructiveCommands = {}
          /\ UNCHANGED <<vm, containers, volumes>>]_vars

\* C1 witness: a reset was declined while containers were running.
C1_Witness ==
    /\ command = "reset"
    /\ pc = "done"
    /\ confirmed = "no"
    /\ vm = "Running"
    /\ containers # {}

\* C2: restore performs no restore step (no restore command, no overwrite of
\* the configuration file) before the caller has confirmed; a declined
\* restore ends with no service data and no configuration file changed.
C2_RestoreNeedsConfirmation ==
    [][(command' = "restore" /\ confirmed' # "yes") =>
          /\ Range(issued') \cap RestoreCommands = {}
          /\ UNCHANGED <<volumes, env_file>>]_vars

\* C2 witness: a restore from a backup that differs from the current data and
\* configuration was declined at the prompt.
C2_Witness ==
    /\ command = "restore"
    /\ pc = "done"
    /\ confirmed = "no"
    /\ backup_dir # <<>>
    /\ BackupFile(EnvBackup) \notin {"absent", env_file}
    /\ BackupFile(ArtifactOf["postgres"]) \notin {"absent", volumes["postgres"]}

\* C3 (as claimed): in backup every per-service step isolates every failure of
\* its external command: once the first dump has been attempted, every
\* per-service step is attempted and the run ends as a completed backup.
C3_BackupStepsIsolated ==
    (command = "backup" /\ pc = "done" /\ "pg_dumpall" \in Range(issued)) =>
        /\ \A s \in DataServices : progress[s] # "pending"
        /\ "Backup completed" \in console

\* The MySQL credential could not be obtained: no readable root token, or a
\* lookup that failed or returned an empty password.
MySQLCredentialMissing ==
    \/ get_vault_token = ""
    \/ ("vault kv get secret/mysql" \in Range(issued) /\ mysql_pass = "")

\* C4 (as claimed): a backup in which the MySQL credential cannot be obtained
\* skips only the MySQL step: no MySQL dump is issued, the set still gets the
\* PostgreSQL artifact when that dump succeeded and the configuration
\* snapshot, and the run is reported as completed.
C4_MissingCredentialSkipsOnlyMySQL ==
    (command = "backup" /\ pc = "done" /\ backup_dir # <<>> /\ MySQLCredentialMissing) =>
        /\ "mysqldump" \notin Range(issued)
        /\ progress["mysql"] = "skipped"
        /\ progress["postgres"] = "backed up" => BackupFile(ArtifactOf["postgres"]) # "absent"
        /\ BackupFile(EnvBackup) # "absent"
        /\ "Backup completed" \in console

\* C5 (as claimed): in a confirmed restore every per-service step is attempted
\* independently: whatever way an earlier step fails, every later step whose
\* artifact is in the set, and the configuration-file restore, are attempted.
C5_RestoreStepsIsolated ==
    (command = "restore" /\ pc = "done" /\ confirmed = "yes") =>
        /\ \A s \in DataServices :
              BackupFile(ArtifactOf[s]) # "absent" => progress[s] # "pending"
        /\ BackupFile(EnvBackup) # "absent" => progress["env"] = "restored"

\* C6 (as claimed): a backup run that wrote no per-service artifact is not
\* reported as a successful backup.
C6_EmptyBackupNotSuccessful ==
    (command = "backup" /\ pc = "done" /\ backup_dir # <<>>
        /\ \A s \in DataServices : progress[s] # "backed up") =>
        "Backup completed" \notin console

\* C7: backup invoked while the VM is not running fails as an unmet
\* prerequisite: no backup directory is created, and nothing but the VM
\* status query is issued (no dump command, no secret-store lookup).
C7_BackupNeedsRunningVM ==
    [][(command' = "backup" /\ vm' # "Running") =>
          /\ backups' = backups
          /\ backup_dir' = <<>>
          /\ Range(issued') \subseteq {"colima status"}
          /\ pc' = "done" =>
                /\ "Backup completed" \notin console'
                /\ colima = "ok" => "Error: Colima is not running" \in console']_vars

\* C7 witness: a backup ended on the prerequisite with the VM stopped.
C7_Witness ==
    /\ command = "backup"
    /\ pc = "done"
    /\ vm = "Stopped"
    /\ "Error: Colima is not running" \in console

\* C8: restore of a named backup asks for no confirmation and performs no
\* restore step when the directory does not exist, or when it exists and the
\* VM is not running; the existence check comes first, so for a missing
\* directory not even the VM status is queried.
C8_RestorePrerequisites ==
    (command = "restore" /\ backup_name # <<>>) =>
        /\ backups[backup_name[1]] = NoDir =>
              /\ issued = <<>>
              /\ confirmed = "unasked"
              /\ pc \in {"restore", "done"}
              /\ progress = NoProgress
        /\ vm # "Running" =>
              /\ Range(issued) \subseteq {"colima status"}
              /\ confirmed = "unasked"
              /\ pc \in {"restore", "restore_check_vm", "done"}
              /\ progress = NoProgress

\* C8 witness: a restore of a missing backup ended, with the VM stopped,
\* without having queried the VM.
C8_Witness ==
    /\ command = "restore"
    /\ pc = "done"
    /\ backup_name # <<>>
    /\ backups[backup_name[1]] = NoDir
    /\ vm = "Stopped"
    /\ "Error: Backup not found" \in console

\* The messages of a command that stops on an unmet prerequisite.
PrerequisiteErrors ==
    {"Error: Colima is not running", "Error: Colima VM is not running",
     "Error: Backup not found", "Error: Redis containers are not running",
     "Warning: Vault token not found",
     "Error: Could not retrieve Redis password from Vault"}

\* C9 (as claimed): every command that stops because a prerequisite is not
\* satisfied ends with a non-zero exit code.
C9_PrerequisiteFailureExitsNonZero ==
    (pc = "done" /\ console \cap PrerequisiteErrors # {}) => exit_code # 0

\* Where a service first occurs when the requested profiles' service lists
\* are laid end to end: the pair <<request index, index in the list>>.
Occurrences(cfg, ps, svc) ==
    UNION {{<<k, i>> : i \in {n \in 1..Len(profile_services(cfg, ps[k])) :
                                 profile_services(cfg, ps[k])[n] = svc}} :
           k \in 1..Len(ps)}

Before(o1, o2) == o1[1] < o2[1] \/ (o1[1] = o2[1] /\ o1[2] < o2[2])

FirstOccurrence(cfg, ps, svc) ==
    CHOOSE o \in Occurrences(cfg, ps, svc) :
        \A o2 \in Occurrences(cfg, ps, svc) : o2 = o \/ Before(o, o2)

\* C10: for every ordered list of known profiles, the service list stop
\* resolves holds each service of a requested profile exactly once, in the
\* order of first occurrence across the request, and nothing else.
C10_StopResolvesFirstOccurrenceOrder ==
    (command = "stop" /\ pc \in {"stop_services", "done"} /\ profile # <<>>
        /\ \A k \in 1..Len(profile) : IsKnownProfile(profiles_config, profile[k])) =>
        /\ Range(services_to_stop) =
              UNION {Range(profile_services(profiles_config, profile[k])) : k \in 1..Len(profile)}
        /\ \A i, j \in 1..Len(services_to_stop) :
              i < j =>
                 /\ services_to_stop[i] # services_to_stop[j]
                 /\ Before(FirstOccurrence(profiles_config, profile, services_to_stop[i]),
                           FirstOccurrence(profiles_config, profile, services_to_stop[j]))

\* C10 witness: the example of the specification, standard = [a, b, c] and
\* reference = [c, d], resolved to [a, b, c, d].
C10_Witness ==
    /\ command = "stop"
    /\ pc = "stop_services"
    /\ profiles_config = ExampleCatalog
    /\ profile = <<"standard", "reference">>
    /\ services_to_stop = <<"a", "b", "c", "d">>

\* A requested name is in neither the standard nor the custom catalog.
HasUnknownProfile ==
    \E i \in 1..Len(profile) : ~IsKnownProfile(profiles_config, profile[i])

\* C11: when any requested profile name is in neither catalog, wherever it
\* stands in the request, nothing is resolved and nothing is done: start and
\* stop issue no external command at all (no VM command, no container
\* command, no container stop), start merges no override, containers and VM
\* stay as they were, and the run ends with the unknown-profile report.
C11_UnknownProfileDoesNothing ==
    [][(command' \in {"start", "stop"} /\ HasUnknownProfile') =>
          /\ issued' = <<>>
          /\ merged_env' = EmptyEnv
          /\ UNCHANGED <<vm, containers>>
          /\ pc' \in {"start", "stop", "done"}
          /\ pc' = "done" =>
                console' \cap {"Error: Unknown profile", "Unknown profile"} # {}]_vars

\* C11 witness: a start whose second name is unknown, after a valid first
\* name, ended with the VM stopped and untouched.
C11_Witness ==
    /\ command = "start"
    /\ pc = "done"
    /\ Len(profile) = 2
    /\ IsKnownProfile(profiles_config, profile[1])
    /\ ~IsKnownProfile(profiles_config, profile[2])
    /\ vm = "Stopped"
    /\ issued = <<>>

\* C12 (as claimed): start and stop, given a name that is in neither catalog,
\* report the valid profile names and end with a non-zero status.
C12_UnknownProfileExitsNonZero ==
    (command \in {"start", "stop"} /\ pc = "done" /\ HasUnknownProfile) =>
        /\ exit_code # 0
        /\ "Available profiles" \in console

\* The positions of the request whose profile's override file sets key k.
Defining(k) == {i \in 1..Len(profile) : k \in DOMAIN load_profile_env(profile[i])}

\* The last position of a non-empty set of positions.
Last(S) == CHOOSE i \in S : \A j \in S : j <= i

\* C13: the environment start has merged is the right-biased union of the
\* requested profiles' override mappings: its keys are the keys some
\* requested profile's file sets, each with the value of the last-listed
\* profile that sets it; a profile without a file adds nothing and start
\* goes on.
C13_MergedEnvIsRightBiasedUnion ==
    (command = "start" /\ "Starting with profile(s)" \in console) =>
        /\ DOMAIN merged_env = {k \in EnvKeys : Defining(k) # {}}
        /\ \A k \in DOMAIN merged_env :
              merged_env[k] = load_profile_env(profile[Last(Defining(k))])[k]

\* C13 witness: two profiles set K differently and the second one's value is
\* the merged one, while J, set by the first profile alone, is kept.
C13_Witness ==
    /\ command = "start"
    /\ pc = "start_check_vm"
    /\ Len(profile) = 2
    /\ "K" \in DOMAIN load_profile_env(profile[1])
    /\ "K" \in DOMAIN load_profile_env(profile[2])
    /\ "J" \in DOMAIN load_profile_env(profile[1])
    /\ "J" \notin DOMAIN load_profile_env(profile[2])
    /\ load_profile_env(profile[1])["K"] # load_profile_env(profile[2])["K"]
    /\ merged_env["K"] = load_profile_env(profile[2])["K"]
    /\ merged_env["J"] = load_profile_env(profile[1])["J"]

\* C14: ensuring the VM is running is idempotent: a start that directly
\* follows a start which started the VM (or found it running) issues no VM
\* start, so the two invocations issue it once at most; it observes the VM
\* running and reports "already running".
C14_SecondStartDoesNotRestartVM ==
    (command = "start" /\ last_start # "none") =>
        /\ vm = "Running"
        /\ "colima start" \notin Range(issued)
        /\ "Colima VM started" \notin console
        /\ "colima status" \in Range(issued) => "Colima VM already running" \in console

\* C14 witness: a start that followed a start which had started the VM has
\* ended normally, having reported the VM as already running.
C14_Witness ==
    /\ command = "start"
    /\ last_start = "started"
    /\ pc = "done"
    /\ exit_code = 0
    /\ issued[1] = "colima status"
    /\ "Colima VM already running" \in console

\* The container-group commands of start.
ContainerCommands ==
    {"docker compose down (cleanup)", "docker compose up", "docker compose ps"}

\* C15: start issues no container-group command (orphan cleanup, bring-up,
\* status query) until the VM has been observed running or has been started
\* successfully; a start whose VM start command failed ends, with a non-zero
\* status, without any container command.
C15_VMBeforeContainers ==
    command = "start" =>
        /\ (Range(issued) \cap ContainerCommands # {}
                \/ pc \in {"start_cleanup", "start_up", "start_ps"}) =>
              /\ vm = "Running"
              /\ issued[1] = "colima status"
              /\ \/ "Colima VM already running" \in console
                 \/ ("Colima VM started" \in console /\ issued[2] = "colima start")
        /\ ("colima start" \in Range(issued) /\ "Colima VM started" \notin console) =>
              /\ Range(issued) \cap ContainerCommands = {}
              /\ pc = "done"
              /\ exit_code # 0

\* C15 witness: the VM start command was found and failed, and start ended
\* there with the command's status.
C15_Witness ==
    /\ command = "start"
    /\ pc = "done"
    /\ colima = "ok"
    /\ issued = <<"colima status", "colima start">>
    /\ exit_code = 2
    /\ vm = "Stopped"

\* C16 (as claimed): after a successful start that follows an earlier start,
\* exactly the services of the requested profiles are up: no container of a
\* profile that was not requested survives.
C16_StartLeavesOnlyRequested ==
    (command = "start" /\ last_start # "none" /\ pc = "done" /\ exit_code = 0) =>
        containers = ComposeServices(profiles_config, Range(profile))

C18_StopAllStopsEverything ==
    (command = "stop" /\ profile = <<>> /\ pc = "done" /\ exit_code = 0) =>
        /\ containers = {}
        /\ vm = "Stopped"
        /\ issued[1] = "docker compose down"

\* C18 witness: a stop of everything has completed by stopping the VM.
C18_Witness ==
    /\ command = "stop"
    /\ profile = <<>>
    /\ pc = "done"
    /\ exit_code = 0
    /\ issued = <<"docker compose down", "colima status", "colima stop">>
    /\ vm = "Stopped"

RestoreOrder == <<"postgres", "mysql", "mongodb", "forgejo">>

\* A per-service restore step is behind: it was attempted or skipped, or its
\* artifact is not in the backup set.
StepBehind(s) == progress[s] # "pending" \/ BackupFile(ArtifactOf[s]) = "absent"

\* C20: in every restore run the per-service steps come in the order
\* PostgreSQL, MySQL, MongoDB, Forgejo, and the configuration file is
\* restored last: only when every per-service step has been attempted or
\* skipped, and the run ends with it, so that no per-service step follows.
C20_ConfigurationRestoredLast ==
    /\ []((command = "restore" /\ backup_dir # <<>>) =>
            /\ \A i, j \in 1..Len(RestoreOrder) :
                  (i < j /\ progress[RestoreOrder[j]] # "pending") =>
                      StepBehind(RestoreOrder[i])
            /\ (progress["env"] # "pending" \/ "Restore completed" \in console) =>
                  /\ pc = "done"
                  /\ \A s \in DataServices : StepBehind(s))
    /\ [][(command = "restore" /\ env_file' # env_file) =>
              /\ \A s \in DataServices : StepBehind(s)
              /\ issued' = issued
              /\ pc' = "done"]_vars

\* C20 witness: a restore attempted or skipped every per-service step, one
\* of them failing, and then restored the configuration file.
C20_Witness ==
    /\ command = "restore"
    /\ pc = "done"
    /\ progress = [postgres |-> "restored", mysql |-> "skipped", mongodb |-> "failed",
                    forgejo |-> "restored", env |-> "restored"]
    /\ env_file = "old"

\* C21: a BackupSet, once created, is never modified: a backup run creates
\* a directory that did not exist before and writes into no other one, and
\* a restore run leaves every BackupSet as it found it.
C21_BackupSetCreatedOnceNeverModified ==
    [][/\ (command = "backup" /\ backup_dir = <<>> /\ backup_dir' # <<>>) =>
            backups[backup_dir'[1]] = NoDir
       /\ (command = "backup" /\ backup_dir # <<>>) =>
            \A n \in BackupNames \ {backup_dir[1]} : backups'[n] = backups[n]
       /\ command = "restore" => backups' = backups]_vars

\* C22: a backup run that completes leaves a verbatim copy of the
\* configuration file in its BackupSet, whatever became of the per-service
\* dumps.
C22_CompletedBackupHoldsConfiguration ==
    (/\ command = "backup"
     /\ pc = "done"
     /\ "Backup completed" \in console
     /\ env_file # "absent") =>
        /\ BackupFile(EnvBackup) = env_file
        /\ progress["env"] = "backed up"

\* C22 witness: a backup in which no per-service dump succeeded completed
\* with the copy of the configuration file in its BackupSet.
C22_Witness ==
    /\ command = "backup"
    /\ pc = "done"
    /\ "Backup completed" \in console
    /\ env_file # "absent"
    /\ \A s \in DataServices : progress[s] \in {"failed", "skipped"}
    /\ BackupFile(EnvBackup) = env_file

\* A path of one or more allowed characters, as the allow-list reads.
OnlyAllowedChars(path) ==
    /\ path # <<>>
    /\ \A i \in 1..Len(path) : path[i] \in AllowedChars

\* C23: get_secret accepts a path exactly when, after the leading and the
\* trailing separators are stripped, it is a non-empty sequence of allowed
\* characters with no ".." in it; an accepted path is requested stripped.
C23_ValidatePathAcceptsExactly ==
    (vault_call.op = "get_secret" /\ vault_pc # "idle") =>
        LET stripped == strip(vault_call.path)
            accepted == vault_result.error # "ValueError"
        IN  /\ accepted <=> (OnlyAllowedChars(stripped) /\ ~contains_traversal(stripped))
            /\ accepted => vault_requests[1].path = stripped

\* C24: get_secret validates the path before any network call: a rejected
\* path raises ValueError with no request sent, and the one request of an
\* accepted path is a read of the secret at the sanitized path.
C24_ValidationBeforeAnyRequest ==
    vault_call.op = "get_secret" =>
        LET validated == validate_secret_path(vault_call.path) IN
        /\ Len(vault_requests) <= 1
        /\ ~validated.ok =>
              /\ vault_requests = <<>>
              /\ vault_pc = "returned"
              /\ vault_result.kind = "raise"
              /\ vault_result.error = "ValueError"
        /\ validated.ok =>
              /\ vault_requests =
                    <<[endpoint |-> "v1/secret/data/", path |-> validated.path]>>
              /\ vault_result.error # "ValueError"

\* C24 witness: a path with a traversal sequence was rejected with no
\* request sent.
C24_Witness ==
    /\ vault_call.op = "get_secret"
    /\ vault_pc = "returned"
    /\ contains_traversal(vault_call.path)
    /\ vault_result.error = "ValueError"
    /\ vault_requests = <<>>

\* C25: a read answered "not found" raises the not-found error scoped to
\* the secret, one answered "forbidden" raises the store-unavailable error,
\* and a timeout or a connection failure raises the store-unavailable error
\* with that cause in its details.
C25_ResponsesMapToErrors ==
    (vault_call.op = "get_secret" /\ vault_pc = "returned"
        /\ vault_response # NoResponse) =>
        /\ vault_response.status = 404 =>
              /\ vault_result.kind = "raise"
              /\ vault_result.error = "ResourceNotFoundError"
              /\ vault_result.scope = "secret"
        /\ vault_response.status = 403 =>
              /\ vault_result.kind = "raise"
              /\ vault_result.error = "VaultUnavailableError"
        /\ vault_response.kind \in {"timeout", "connect error"} =>
              /\ vault_result.kind = "raise"
              /\ vault_result.error = "VaultUnavailableError"
              /\ vault_result.cause = vault_response.kind

\* C25 witness: a read that the store answered "forbidden" raised the
\* store-unavailable error.
C25_Witness ==
    /\ vault_call.op = "get_secret"
    /\ vault_pc = "returned"
    /\ vault_response.status = 403
    /\ vault_result.error = "VaultUnavailableError"

\* The store answered the read with the secret's fields.
SecretRead ==
    /\ vault_call.op = "get_secret"
    /\ vault_pc = "returned"
    /\ vault_response.kind = "response"
    /\ vault_response.status = 200
    /\ vault_response.json

\* C26: a read with a key returns the mapping of that key alone to its
\* value when the secret has the field and raises the not-found error
\* scoped to the field when it has not; a read with no key returns the
\* whole mapping of the secret.
C26_KeySelectsOneField ==
    SecretRead =>
        LET key == vault_call.key
            data == vault_response.data
        IN  /\ (key # NoKey /\ key \in DOMAIN data) =>
                  /\ vault_result.kind = "return"
                  /\ DOMAIN vault_result.value = {key}
                  /\ vault_result.value[key] = data[key]
            /\ (key # NoKey /\ key \notin DOMAIN data) =>
                  /\ vault_result.kind = "raise"
                  /\ vault_result.error = "ResourceNotFoundError"
                  /\ vault_result.scope = "secret_key"
            /\ key = NoKey =>
                  /\ vault_result.kind = "return"
                  /\ vault_result.value = data

\* C26 witness: a read of one key of a secret with two fields returned that
\* field alone.
C26_Witness ==
    /\ SecretRead
    /\ vault_call.key = "password"
    /\ DOMAIN vault_response.data = SecretFields
    /\ vault_result.kind = "return"
    /\ DOMAIN vault_result.value = {"password"}

\* C27: check_health never raises: it returns a report whose status is
\* healthy exactly when the store answered 200, and a transport failure
\* gives the report "unhealthy".
C27_HealthCheckNeverRaises ==
    (vault_call.op = "check_health" /\ vault_pc = "returned") =>
        /\ vault_result.kind = "return"
        /\ vault_result.report.status \in {"healthy", "unhealthy"}
        /\ vault_result.report.status = "healthy" <=>
              (vault_response.kind = "response" /\ vault_response.status = 200)
        /\ vault_response.kind # "response" =>
              vault_result.report.status = "unhealthy"

\* C27 witness: a health check that timed out returned the report
\* "unhealthy".
C27_Witness ==
    /\ vault_call.op = "check_health"
    /\ vault_pc = "returned"
    /\ vault_response.kind = "timeout"
    /\ vault_result.kind = "return"
    /\ vault_result.report.status = "unhealthy"

\* The commands of a cluster initialization past its check of the nodes.
ClusterInitCommands ==
    {"vault kv get secret/redis-1", "redis-cluster-init.sh", "redis-cli --cluster create",
     "redis-cli cluster nodes"}

\* C28: cluster initialization goes on only when all three Redis nodes are
\* running: with one of them down it looks up no password and attempts no
\* cluster create.
C28_InitNeedsAllThreeNodes ==
    (command \in ClusterCommands /\ ~(ClusterNodes \subseteq containers)) =>
        Range(issued) \cap ClusterInitCommands = {}

C30_AlreadyExistsIsNoOp ==
    (command \in ClusterCommands /\ pc = "done" /\ create_error = "already") =>
        console \cap {"Error: Redis cluster initialization failed",
                      "Error initializing Redis cluster"} = {}

\* C34: a step of a backup run changes a service's artifact in the
\* BackupSet only by writing the dump of a command that exited with status
\* 0: the step that reports the service backed up writes the service's data,
\* and a step that failed or was skipped leaves the artifact as it was, so
\* that in a new BackupSet the artifact is there exactly for the services
\* backed up (the first run of a behaviour always makes a new one).
C34_ArtifactIffDumpSucceeded ==
    /\ [][(command = "backup" /\ backup_dir # <<>> /\ backup_dir' # <<>>) =>
            \A s \in DataServices :
               LET before == backups[backup_dir[1]][ArtifactOf[s]]
                   after == backups'[backup_dir[1]][ArtifactOf[s]]
               IN  /\ after # before =>
                         (progress[s] = "pending" /\ progress'[s] = "backed up")
                   /\ (progress[s] = "pending" /\ progress'[s] = "backed up") =>
                         after = volumes[s]]_vars
    /\ []((command = "backup" /\ pc = "done" /\ backup_dir # <<>> /\ runs = 1) =>
            \A s \in DataServices :
               (BackupFile(ArtifactOf[s]) # "absent") <=> (progress[s] = "backed up"))

\* C34 witness: a backup whose PostgreSQL dump failed and whose MongoDB dump
\* succeeded left no PostgreSQL artifact and the MongoDB one.
C34_Witness ==
    /\ command = "backup"
    /\ pc = "done"
    /\ backup_dir # <<>>
    /\ progress["postgres"] = "failed"
    /\ progress["mongodb"] = "backed up"
    /\ BackupFile(ArtifactOf["postgres"]) = "absent"
    /\ BackupFile(ArtifactOf["mongodb"]) = volumes["mongodb"]

\* The command each restore step issues.
RestoreCommandOf ==
    [postgres |-> "psql", mysql |-> "mysql", mongodb |-> "mongorestore",
     forgejo |-> "forgejo untar"]

\* A restore that was confirmed, from the BackupSet it names.
ConfirmedRestore == command = "restore" /\ confirmed = "yes" /\ backup_dir # <<>>

\* C35: in a confirmed restore a service's restore command is issued only
\* if the BackupSet holds the service's artifact, and the configuration
\* file is written only if the BackupSet holds the snapshot; a service
\* without an artifact keeps its data.
C35_RestoreOnlyWhatTheSetHolds ==
    /\ [](ConfirmedRestore =>
            /\ \A s \in DataServices :
                  BackupFile(ArtifactOf[s]) = "absent" =>
                      /\ RestoreCommandOf[s] \notin Range(issued)
                      /\ progress[s] = "pending"
            /\ BackupFile(ArtifactOf["mysql"]) = "absent" =>
                  "vault kv get secret/mysql" \notin Range(issued)
            /\ BackupFile(EnvBackup) = "absent" => progress["env"] = "pending")
    /\ [][(ConfirmedRestore /\ command' = "restore") =>
            /\ \A s \in DataServices :
                  BackupFile(ArtifactOf[s]) = "absent" => volumes'[s] = volumes[s]
            /\ BackupFile(EnvBackup) = "absent" => env_file' = env_file]_vars

\* C35 witness: a confirmed restore from a BackupSet without the PostgreSQL
\* artifact restored MongoDB and left the PostgreSQL data as it was.
C35_Witness ==
    /\ ConfirmedRestore
    /\ pc = "done"
    /\ "Restore completed" \in console
    /\ BackupFile(ArtifactOf["postgres"]) = "absent"
    /\ "psql" \notin Range(issued)
    /\ volumes["postgres"] = "live"
    /\ progress["mongodb"] = "restored"

\* Stop of everything: stop with no profile.
StopAll == command = "stop" /\ profile = <<>>

\* C36: in stop without a profile the VM is queried and stopped only after
\* the teardown command succeeded, with every container down; a teardown
\* that fails ends the command with its exit status, with no VM command
\* issued and the VM as it was.
C36_VMStopOnlyAfterTeardown ==
    /\ []((StopAll /\ Range(issued) \cap {"colima status", "colima stop"} # {}) =>
            /\ issued[1] = "docker compose down"
            /\ "Docker services stopped" \in console
            /\ containers = {})
    /\ []((StopAll /\ pc = "done" /\ "Docker services stopped" \notin console) =>
            /\ issued = <<"docker compose down">>
            /\ exit_code # 0
            /\ docker = "ok" => exit_code \in ReturnCodes)
    /\ [][(StopAll /\ vm' # vm) =>
            /\ "Docker services stopped" \in console
            /\ issued' = Append(issued, "colima stop")]_vars

\* C36 witness: a stop whose teardown failed ended with the teardown's
\* status and issued nothing else.
C36_Witness ==
    /\ StopAll
    /\ pc = "done"
    /\ docker = "ok"
    /\ vm = "Running"
    /\ issued = <<"docker compose down">>
    /\ exit_code \in ReturnCodes \ {0}

C38_RestartLeavesVMAlone ==
    /\ [](command = "restart" =>
            /\ Range(issued) \cap {"colima start", "colima stop", "colima delete"} = {}
            /\ vm # "Running" => Range(issued) \subseteq {"colima status"})
    /\ [][command = "restart" => (vm' = vm /\ containers' = containers)]_vars

\* C38 witness: a restart with the VM stopped ended after the status query.
C38_Witness ==
    /\ command = "restart"
    /\ pc = "done"
    /\ vm = "Stopped"
    /\ colima = "ok"
    /\ issued = <<"colima status">>
    /\ "Error: Colima VM is not running" \in console

\* A read of a path the validation accepts has returned.
ValidRead ==
    /\ vault_call.op = "get_secret"
    /\ vault_pc = "returned"
    /\ validate_secret_path(vault_call.path).ok

\* C39: for a valid path get_secret ends in one of three outcomes: the
\* mapping of fields, the not-found error or the store-unavailable error;
\* a status other than 200, 404 and 403, a body that is not the expected
\* JSON and any unexpected exception all give the store-unavailable error.
C39_ThreeOutcomes ==
    ValidRead =>
        /\ \/ vault_result.kind = "return" /\ vault_result.value \in SecretMaps
           \/ /\ vault_result.kind = "raise"
              /\ vault_result.error \in {"ResourceNotFoundError", "VaultUnavailableError"}
        /\ (\/ vault_response.kind \in {"http error", "exception"}
            \/ /\ vault_response.kind = "response"
               /\ \/ vault_response.status \notin {200, 403, 404}
                  \/ ~vault_response.json) =>
              /\ vault_result.kind = "raise"
              /\ vault_result.error = "VaultUnavailableError"

\* C39 witness: a read answered 200 with a body that is not the expected
\* JSON raised the store-unavailable error.
C39_Witness ==
    /\ ValidRead
    /\ vault_response.status = 200
    /\ ~vault_response.json
    /\ vault_result.error = "VaultUnavailableError"

\* C40: every path the validation returns is non-empty, neither begins nor
\* ends with a slash and has allowed characters only, and validating it
\* again returns it unchanged.
C40_ValidatedPathIsClean ==
    vault_call.op = "get_secret" =>
        LET validated == validate_secret_path(vault_call.path) IN
        validated.ok =>
            /\ validated.path # <<>>
            /\ Head(validated.path) # "/"
            /\ validated.path[Len(validated.path)] # "/"
            /\ OnlyAllowedChars(validated.path)
            /\ validate_secret_path(validated.path) = validated

\* C31: logs, which with --follow goes on for as long as there is a
\* container to follow and nobody interrupts it, ends cleanly when the user
\* interrupts it: the interrupt is reported, the command ends with status 0
\* and no traceback, and no step of logs changes the VM, the containers or
\* the data.
C31_InterruptEndsLogsCleanly ==
    /\ []((command = "logs" /\ pc = "done" /\ docker = "ok") =>
            /\ exit_code = 0
            /\ "Traceback" \notin console)
    /\ []((command = "logs" /\ "Log streaming stopped" \in console) =>
            /\ pc = "done"
            /\ exit_code = 0)
    /\ [][command = "logs" =>
            /\ vm' = vm
            /\ containers' = containers
            /\ volumes' = volumes]_vars
    /\ [][(command = "logs" /\ follow /\ containers # {}
              /\ pc = "logs_streaming" /\ pc' = "done") =>
            "Log streaming stopped" \in console']_vars

\* C31 witness: a logs --follow that had shown output was interrupted and
\* ended with status 0, the VM and the containers still running.
C31_Witness ==
    /\ command = "logs"
    /\ follow
    /\ pc = "done"
    /\ "log output" \in console
    /\ "Log streaming stopped" \in console
    /\ exit_code = 0
    /\ vm = "Running"
    /\ containers # {}

\* restore was called without a name and has returned.
Listed == command = "restore" /\ backup_name = <<>> /\ pc = "done"

\* C33: restore without a name changes nothing and lists every directory of
\* backups/ exactly once, the timestamps newest first; a directory whose
\* name is not a timestamp is listed with its name as the date.
C33_ListingNewestFirst ==
    /\ [](Listed =>
            /\ {table[i].name : i \in 1..Len(table)} = BackupDirs
            /\ Len(table) = Cardinality(BackupDirs)
            /\ \A i, j \in 1..Len(table) :
                  (i < j /\ table[i].name \in BackupNames /\ table[j].name \in BackupNames)
                      => table[i].name > table[j].name
            /\ \A i \in 1..Len(table) :
                  table[i].date =
                      [shown |-> IF table[i].name \in BackupNames THEN "date" ELSE "name",
                       of |-> table[i].name]
            /\ issued = <<>>
            /\ exit_code = 0)
    /\ [][(command = "restore" /\ backup_name = <<>>) =>
            UNCHANGED <<vm, containers, volumes, env_file, backups, other_dirs,
                        root_token, cluster>>]_vars

\* C33 witness: a listing of two backup sets and a directory with another
\* name showed all three, the newer backup set before the older.
C33_Witness ==
    /\ Listed
    /\ Len(table) = 3
    /\ \E i \in 1..3 : table[i].date.shown = "name"
    /\ \E i, j \in 1..3 :
          /\ i < j
          /\ table[i].date.shown = "date"
          /\ table[j].date.shown = "date"
          /\ table[i].name > table[j].name

\* What a lookup in the store can give: the password of a service.
SecretMaterial == {"pw"}

====
